---- MODULE Spec2Model ----
(***************************************************************************)
(* Model of python/mor/reduction/reduceModel.py: the phase enumeration of  *)
(* ReductionAnimations, the state-timeline merge of PackageBuilder and the *)
(* four-phase orchestration of ReduceModel.                                *)
(*                                                                         *)
(* Python lists are sequences; Python indices are kept 0-based in the      *)
(* arithmetic and shifted by one where a sequence is accessed.             *)
(***************************************************************************)
EXTENDS Integers, Sequences, FiniteSets, TLC

\* Largest actuator count of the enumeration (SpecGen).
MaxActuators == 6

VARIABLES
    \* ---- ReductionAnimations.generateListOfPhase, statement by statement
    nbActuator,      \* self.nbActuator
    nbPossibility,   \* self.nbPossibility
    nbIterations,    \* self.nbIterations
    phaseNum,        \* local phaseNum of generateListOfPhase
    phaseNumClass,   \* local phaseNumClass, then self.phaseNumClass
    genPc,           \* position in generateListOfPhase
    gi,              \* loop variable i
    gnb,             \* loop variable nb
    \* ---- the launcher (startSofa / ParallelLauncher) and the job directories
    listSofaScene,   \* self.listSofaScene: the jobs of the last submission
    jobStatus,       \* per submitted job: "running" or "done"
    jobDirs,         \* per submitted job: its private working directory
    finishOrder,     \* the submitted jobs in the order they completed (SpecMerge)
    nbWorkers,       \* the worker count of the ParallelLauncher of the last submission
    results,         \* what startSofa returned for the last submission
    \* ---- PackageBuilder
    debugDir,        \* the files of packageBuilder.debugDir
    mPc,             \* position of the caller of copyAndCleanState
    mName,           \* stateFileName of the copyAndCleanState call just made
    mGie,            \* gie of that call (<<>> for None)
    mRaised,         \* what that call raised
    mStale,          \* whether the last call found every file it writes, filled
    \* ---- ReduceModel and its ReductionParam
    call,            \* the public method being executed, "none" between calls
    pc,              \* position inside it
    argPhases,       \* performReduction's phasesToExecute (<<>> for None)
    argModes,        \* performReduction's nbrOfModes ({} for None, {v} for v)
    phaseToSave,     \* self.phaseToSave (<<>> for None)
    phaseToSaveIndex,\* self.phaseToSaveIndex
    nbrOfModes,      \* self.reductionParam.nbrOfModes
    paramWrapper,    \* stage of self.reductionParam.paramWrapper
    dataDir,         \* the files of packageBuilder.dataDir
    raised,          \* the exception that ended the call, "none" otherwise
    log,             \* what the current call has done so far, in order
    refUse,          \* the use of results[self.phaseToSaveIndex] by the last phase
    modeCheck,       \* the mode-count resolution of the phase3 / phase4 call that
                     \* waits for its jobs or has just raised
    gieFilesNames,   \* self.reductionParam.gieFilesNames
    savedElementsFilesNames, \* self.reductionParam.savedElementsFilesNames
    massName,        \* self.reductionParam.massName
    activesNodesLists, \* self.activesNodesLists
    outputDir,       \* the files directly under packageBuilder.outputDir
    meshDir,         \* the files of packageBuilder.meshDir
    nbCalls,         \* how many calls have been made on the ReduceModel
    \* ---- one object on which single methods are called
    uObj,            \* the fields of that object the methods read and write
    uRet             \* the method last called on it, what it raised and returned

genVars == <<nbActuator, nbPossibility, nbIterations, phaseNum, phaseNumClass, genPc,
             gi, gnb>>

launchVars == <<listSofaScene, jobStatus, jobDirs, finishOrder, nbWorkers, results>>

mergeVars == <<debugDir, mPc, mName, mGie, mRaised, mStale>>

orchVars == <<call, pc, argPhases, argModes, phaseToSave, phaseToSaveIndex, nbrOfModes,
              paramWrapper, dataDir, raised, log, refUse, modeCheck, gieFilesNames,
              savedElementsFilesNames, massName, activesNodesLists, outputDir,
              meshDir, nbCalls>>

unitVars == <<uObj, uRet>>

vars == <<genVars, launchVars, mergeVars, orchVars, unitVars>>

----------------------------------------------------------------------------
\* Generic helpers

RECURSIVE Pow2(_)
Pow2(n) == IF n = 0 THEN 1 ELSE 2 * Pow2(n - 1)

RECURSIVE SumSeq(_)
\* Python's sum(list)
SumSeq(s) == IF s = <<>> THEN 0 ELSE Head(s) + SumSeq(Tail(s))

\* A Python list index idx is accepted for a list of length n iff -n <= idx < n.
PyIndexOK(idx, n) == idx >= -n /\ idx < n

\* The 1-based position a valid Python index (negative ones count from the end).
PyPos(idx, n) == IF idx < 0 THEN idx + n + 1 ELSE idx + 1

----------------------------------------------------------------------------
\* ReductionAnimations.generateListOfPhase

RECURSIVE BinDigits(_)
\* "{0:b}".format(i): the binary digits of i, most significant first; "0" for 0.
BinDigits(i) == IF i < 2 THEN <<i>> ELSE BinDigits(i \div 2) \o <<i % 2>>

\* Mutant of BitIndex: digits written from the left end of the row.
BitIndexLeft(j, nbAct, binLen) == j

\* The index written by  phaseNum[i][j + nbActuator-len(binVal)] = int(binVal[j])
BitIndex(j, nbAct, binLen) == j + nbAct - binLen

RECURSIVE FillRow(_, _, _, _)
\* The inner loop  for j in range(len(binVal))  on one row; raised is TRUE when a
\* list assignment is out of range (IndexError).
FillRow(row, binVal, j, nbAct) ==
    IF j >= Len(binVal) THEN [raised |-> FALSE, row |-> row]
    ELSE LET idx == BitIndex(j, nbAct, Len(binVal))
         IN  IF ~PyIndexOK(idx, Len(row))
             THEN [raised |-> TRUE, row |-> row]
             ELSE FillRow([row EXCEPT ![PyPos(idx, Len(row))] = binVal[j + 1]],
                          binVal, j + 1, nbAct)

\* phaseNum = [[0] * nbActuator for i in range(nbPossibility)]
ZeroRows(nbPoss, nbAct) == [i \in 1..nbPoss |-> [j \in 1..nbAct |-> 0]]

\* What the enumeration leaves alone.
GenFrame == UNCHANGED <<launchVars, mergeVars, orchVars, unitVars>>

\* No method called yet on no object.
NoReturn == [op |-> "none", arg |-> 0, raised |-> "none", val |-> 0]

UnitIdle ==
    /\ uObj = [class |-> "none"]
    /\ uRet = NoReturn

\* No submission yet, nothing merged yet.
LaunchIdle ==
    /\ listSofaScene = <<>>
    /\ jobStatus = <<>>
    /\ jobDirs = <<>>
    /\ finishOrder = <<>>
    /\ nbWorkers = 0
    /\ results = <<>>

\* An untouched debug directory and no merge call yet.
MergeIdle ==
    /\ debugDir = [n \in {} |-> <<>>]
    /\ mPc = "idle"
    /\ mName = <<>>
    /\ mGie = <<>>
    /\ mRaised = "none"
    /\ mStale = FALSE

\* The trailing path segment of nodeToReduce.
NodeName == <<"n">>

GieBase ==
    <<"H", "y", "p", "e", "r", "R", "e", "d", "u", "c", "e", "d", "F", "E", "M",
      "F", "o", "r", "c", "e", "F", "i", "e", "l", "d", "_">> \o NodeName

\* ReductionParam.setFilesName: 'HyperReducedFEMForceField_'+nodeName+'_Gie.txt'
GieDefaultName == GieBase \o <<"_", "G", "i", "e", ".", "t", "x", "t">>

\* ReductionParam.setFilesName: 'elmts_'+nodeName+'.txt'
ElmtsDefaultName == <<"e", "l", "m", "t", "s", "_">> \o NodeName \o <<".", "t", "x", "t">>

NoRefUse ==
    [used |-> FALSE, stage |-> 0, index |-> 0, save |-> <<>>, phases |-> <<>>,
     gie |-> FALSE]

NoModeCheck ==
    [phase |-> 0, req |-> {}, stored |-> 0, avail |-> 0, count |-> 0,
     raised |-> "none", submitted |-> FALSE]

\* ReduceModel.__init__ and the constructors it calls, but for phaseToSave.
Constructed ==
    /\ call = "none"
    /\ pc = "idle"
    /\ argPhases = <<>>
    /\ argModes = {}
    /\ phaseToSaveIndex = 0
    /\ nbrOfModes = -1
    /\ paramWrapper = "prepare"
    /\ dataDir = [n \in {} |-> <<>>]
    /\ raised = "none"
    /\ log = <<>>
    /\ refUse = NoRefUse
    /\ modeCheck = NoModeCheck
    /\ gieFilesNames = <<GieDefaultName>>
    /\ savedElementsFilesNames = <<ElmtsDefaultName>>
    /\ massName = <<>>
    /\ activesNodesLists = <<>>
    /\ outputDir = [n \in {} |-> <<>>]
    /\ meshDir = {}
    /\ nbCalls = 0

\* A ReduceModel constructed with phaseToSave = None, on which nothing is called.
NoOrchestrator ==
    /\ Constructed
    /\ phaseToSave = <<>>

\* The params of an ObjToAnimate, as in the example of its docstring.
ObjParams == [incr |-> 5, incrPeriod |-> 10, rangeOfAction |-> 40]

\* listObjToAnimate for n actuators
ListObjToAnimate(n) == [k \in 1..n |-> ObjParams]

RECURSIVE SetNbIteration(_, _)
\* setNbIteration() with no argument, from self.nbIterations = cur; the
\* divisions are between integers, and an object whose params lack incr or
\* incrPeriod counts for 0.
SetNbIteration(objs, cur) ==
    IF objs = <<>> THEN cur
    ELSE LET obj == Head(objs)
             tmp == IF {"incr", "incrPeriod"} \subseteq DOMAIN obj
                    THEN ((obj.rangeOfAction \div obj.incr) - 1) * obj.incrPeriod
                           + 2 * obj.incrPeriod - 1
                    ELSE 0
         IN  SetNbIteration(Tail(objs), IF tmp > cur THEN tmp ELSE cur)

GenInit ==
    /\ UnitIdle
    /\ LaunchIdle
    /\ MergeIdle
    /\ NoOrchestrator
    /\ nbActuator \in 0..MaxActuators
    /\ nbPossibility = Pow2(nbActuator)
    /\ nbIterations = SetNbIteration(ListObjToAnimate(nbActuator), 0)
    /\ phaseNum = ZeroRows(nbPossibility, nbActuator)
    /\ phaseNumClass = <<>>
    /\ genPc = "fill"
    /\ gi = 0
    /\ gnb = 0

\* One iteration of  for i in range(nbPossibility)  (first loop).
GenFillRow ==
    /\ genPc = "fill"
    /\ gi < nbPossibility
    /\ LET r == FillRow(phaseNum[gi + 1], BinDigits(gi), 0, nbActuator)
       IN  IF r.raised
           THEN /\ genPc' = "IndexError"
                /\ UNCHANGED <<phaseNum, gi>>
           ELSE /\ phaseNum' = [phaseNum EXCEPT ![gi + 1] = r.row]
                /\ gi' = IF gi + 1 = nbPossibility THEN 0 ELSE gi + 1
                /\ genPc' = IF gi + 1 = nbPossibility THEN "class" ELSE "fill"
    /\ gnb' = 0
    /\ UNCHANGED <<nbActuator, nbPossibility, nbIterations, phaseNumClass>>
    /\ GenFrame

\* One iteration of the inner loop of  for nb in range(nbActuator+1): for i in ...
GenClassify ==
    /\ genPc = "class"
    /\ gnb <= nbActuator
    /\ LET i == gi
       IN  /\ phaseNumClass' = IF SumSeq(phaseNum[i + 1]) = gnb
                               THEN Append(phaseNumClass, phaseNum[i + 1])
                               ELSE phaseNumClass
           /\ IF i + 1 = nbPossibility
              THEN /\ gi' = 0
                   /\ gnb' = gnb + 1
                   /\ genPc' = IF gnb + 1 > nbActuator THEN "done" ELSE "class"
              ELSE /\ gi' = i + 1
                   /\ UNCHANGED <<gnb, genPc>>
    /\ UNCHANGED <<nbActuator, nbPossibility, nbIterations, phaseNum>>
    /\ GenFrame

GenNext == GenFillRow \/ GenClassify

SpecGen == GenInit /\ [][GenNext]_vars

----------------------------------------------------------------------------
\* Properties of the phase enumeration (SpecGen)

\* Hamming weight of a phase vector.
Weight(v) == Cardinality({j \in 1..Len(v) : v[j] = 1})

RECURSIVE BitsValue(_)
\* The bits of v read as a base-2 number, first entry most significant.
BitsValue(v) ==
    IF v = <<>> THEN 0 ELSE 2 * BitsValue(SubSeq(v, 1, Len(v) - 1)) + v[Len(v)]

GenFinished == genPc \notin {"fill", "class"}

\* C1: for every actuator count n in 0..MaxActuators, generateListOfPhase(2^n, n)
\* returns, and what it returns is a sequence of exactly 2^n vectors of length n
\* over {0,1} in which every such bit vector occurs exactly once.
C1_EveryVectorOnce ==
    GenFinished =>
        /\ genPc = "done"
        /\ Len(phaseNumClass) = Pow2(nbActuator)
        /\ \A k \in 1..Len(phaseNumClass) :
              phaseNumClass[k] \in [1..nbActuator -> {0, 1}]
        /\ \A v \in [1..nbActuator -> {0, 1}] :
              Cardinality({k \in 1..Len(phaseNumClass) : phaseNumClass[k] = v}) = 1

\* C2: in the sequence generateListOfPhase produces, the Hamming weight never
\* decreases from one vector to the next, and between two consecutive vectors of
\* equal weight the base-2 value strictly increases; for two actuators the
\* sequence is [0,0], [0,1], [1,0], [1,1].
C2_WeightThenValueOrder ==
    genPc = "done" =>
        /\ \A k \in 1..(Len(phaseNumClass) - 1) :
              /\ Weight(phaseNumClass[k]) <= Weight(phaseNumClass[k + 1])
              /\ Weight(phaseNumClass[k]) = Weight(phaseNumClass[k + 1])
                    => BitsValue(phaseNumClass[k]) < BitsValue(phaseNumClass[k + 1])
        /\ nbActuator = 2 =>
              phaseNumClass = << <<0, 0>>, <<0, 1>>, <<1, 0>>, <<1, 1>> >>

\* C2 witness: a finished enumeration holding two consecutive vectors of equal
\* weight and, further on, a step up in weight.
C2_Witness ==
    /\ genPc = "done"
    /\ nbActuator >= 2
    /\ \E k \in 1..(Len(phaseNumClass) - 2) :
          /\ Weight(phaseNumClass[k]) = Weight(phaseNumClass[k + 1])
          /\ Weight(phaseNumClass[k + 1]) < Weight(phaseNumClass[k + 2])

----------------------------------------------------------------------------
\* Text files: a file is the sequence of its lines, a line the sequence of its
\* characters (without the newline). A directory maps the names of the files it
\* holds to their contents. State files are written by the simulation one whole
\* line at a time, so every line of a file is a complete line.

MaxJobs == 2      \* most jobs in one submission (SpecMerge)

periodSaveGIE == 6

\* File names are sequences of characters, like lines.
StateFileName == <<"s", "t", "a", "t", "e", "F", "i", "l", "e", ".", "s", "t", "a", "t", "e">>

\* Mutant of Step2Name: no prefix.
Step2NameBare(name) == name

\* 'step2_'+self.reductionParam.stateFileName
Step2Name(name) == <<"s", "t", "e", "p", "2", "_">> \o name

GieSuffix == <<"_", "G", "i", "e", ".", "t", "x", "t">>

\* The names of the error-indicator files of the jobs.
GieA == <<"a">> \o GieSuffix
GieB == <<"b">> \o GieSuffix

EmptyDir == [n \in {} |-> <<>>]

\* os.path.exists(dir + name)
Exists(dir, name) == name \in DOMAIN dir

WriteFile(dir, name, content) ==
    [n \in (DOMAIN dir) \cup {name} |-> IF n = name THEN content ELSE dir[n]]

\* os.remove(dir + name)
RemoveFile(dir, name) == [n \in (DOMAIN dir) \ {name} |-> dir[n]]

DigitChar(d) == <<"0", "1", "2", "3", "4", "5", "6", "7", "8", "9">>[d + 1]

RECURSIVE Str(_)
\* str(n) for an integer n >= 0: its decimal digits.
Str(n) == IF n < 10 THEN <<DigitChar(n)>> ELSE Str(n \div 10) \o <<DigitChar(n % 10)>>

\* line.find('T=') != -1
FindTEq(line) ==
    \E p \in 1..(Len(line) - 1) : SubSeq(line, p, p + 1) = <<"T", "=">>

\* Mutant of MarkerLine: the counter is added to the period.
MarkerLineSum(period, counter) == <<"T", "=", " ">> \o Str(period + counter)

\* line = 'T= '+str(periodSaveGIE*counter)+'\n'
MarkerLine(period, counter) == <<"T", "=", " ">> \o Str(period * counter)

RECURSIVE CleanLines(_, _, _)
\* The loop of cleanStateFile over the lines of the file, counter as in the code.
CleanLines(lines, period, counter) ==
    IF lines = <<>> THEN <<>>
    ELSE IF FindTEq(Head(lines))
         THEN <<MarkerLine(period, counter)>> \o CleanLines(Tail(lines), period, counter + 1)
         ELSE <<Head(lines)>> \o CleanLines(Tail(lines), period, counter)

\* PackageBuilder.cleanStateFile: rewrites debugDir/stateFileName in place;
\* fileinput raises IOError when the file does not exist.
CleanStateFile(dir, period, stateFileName) ==
    IF ~Exists(dir, stateFileName)
    THEN [raised |-> "IOError", dir |-> dir]
    ELSE [raised |-> "none",
          dir |-> WriteFile(dir, stateFileName, CleanLines(dir[stateFileName], period, 1))]

\* PackageBuilder.copyFileIntoAnother: open(dst, "a") creates dst when missing;
\* a missing source raises IOError, which is caught and only printed.
CopyFileIntoAnother(srcDir, srcName, dir, dstName) ==
    LET opened == IF Exists(dir, dstName) THEN dir ELSE WriteFile(dir, dstName, <<>>)
    IN  IF Exists(srcDir, srcName)
        THEN WriteFile(opened, dstName, opened[dstName] \o srcDir[srcName])
        ELSE opened

RECURSIVE CopyGie(_, _, _)
\* for fileName in gie: copyFileIntoAnother(res dir + fileName, debugDir + fileName)
CopyGie(srcDir, dir, gie) ==
    IF gie = <<>> THEN dir
    ELSE CopyGie(srcDir, CopyFileIntoAnother(srcDir, Head(gie), dir, Head(gie)), Tail(gie))

\* The body of  for res in results  in copyAndCleanState.
CopyOneResult(dir, res, dirs, stateFileName, gie) ==
    CopyGie(dirs[res.directory],
            CopyFileIntoAnother(dirs[res.directory], StateFileName, dir, stateFileName),
            gie)

RECURSIVE CopyAllResultsReversed(_, _, _, _, _)
\* Mutant of CopyAllResults: the results are visited last to first.
CopyAllResultsReversed(dir, res, dirs, stateFileName, gie) ==
    IF res = <<>> THEN dir
    ELSE CopyAllResultsReversed(
             CopyOneResult(dir, res[Len(res)], dirs, stateFileName, gie),
             SubSeq(res, 1, Len(res) - 1), dirs, stateFileName, gie)

RECURSIVE CopyAllResults(_, _, _, _, _)
\* for res in results: ...   (copyAndCleanState)
CopyAllResults(dir, res, dirs, stateFileName, gie) ==
    IF res = <<>> THEN dir
    ELSE CopyAllResults(CopyOneResult(dir, Head(res), dirs, stateFileName, gie),
                        Tail(res), dirs, stateFileName, gie)

RECURSIVE RemoveAll(_, _)
RemoveAll(dir, names) ==
    IF names = <<>> THEN dir ELSE RemoveAll(RemoveFile(dir, Head(names)), Tail(names))

\* Mutant of RemoveStale: only the state file is removed.
RemoveStaleStateOnly(dir, stateFileName, gie) == RemoveFile(dir, stateFileName)

\* The os.remove calls at the head of copyAndCleanState.
RemoveStale(dir, stateFileName, gie) == RemoveAll(RemoveFile(dir, stateFileName), gie)

\* PackageBuilder.copyAndCleanState(results, periodSaveGIE, stateFileName, gie);
\* gie = None is the empty sequence.
CopyAndCleanState(dir, res, dirs, period, stateFileName, gie) ==
    CleanStateFile(
        CopyAllResults(RemoveStale(dir, stateFileName, gie), res, dirs, stateFileName, gie),
        period, stateFileName)

----------------------------------------------------------------------------
\* The launcher: startSofa(listSofaScene, templates, ParallelLauncher(nbrCPU)).
\* Every job runs on its own in a private directory; jobs complete in any order;
\* startSofa returns once all have completed, one result per job, in the order of
\* submission.

\* ReduceModel.__init__, nbrCPU = 4: the worker count of phase1 and phase3
nbrCPU == 4

\* Mutant of FinalLauncher: the launcher of the other phases.
FinalLauncherParallel == nbrCPU

\* launcher=ParallelLauncher(1) of phase4
FinalLauncher == 1

\* startSofa is entered with these jobs and a launcher of so many workers.
Submit(jobs, workers) ==
    /\ listSofaScene' = jobs
    /\ nbWorkers' = workers
    /\ jobStatus' = [k \in 1..Len(jobs) |-> "running"]
    /\ jobDirs' = [k \in 1..Len(jobs) |-> EmptyDir]
    /\ finishOrder' = <<>>
    /\ results' = <<>>

\* Job k completes, leaving the files out in its directory.
JobFinish(k, out) ==
    /\ jobStatus[k] = "running"
    /\ jobStatus' = [jobStatus EXCEPT ![k] = "done"]
    /\ jobDirs' = [jobDirs EXCEPT ![k] = out]
    /\ UNCHANGED <<listSofaScene, nbWorkers, results>>

AllJobsDone == \A k \in 1..Len(jobStatus) : jobStatus[k] = "done"

\* The result list startSofa returns: result k belongs to the k-th submitted job.
StartSofaResults == [k \in 1..Len(listSofaScene) |-> [directory |-> k]]

----------------------------------------------------------------------------
\* What a simulation job leaves in its directory. The lines a job writes carry
\* the job's position in the submission.

XLine(k) == <<"X", "=", DigitChar(k)>>
GLine(k) == <<"G", DigitChar(k)>>
HLine(k) == <<"H", DigitChar(k)>>

\* The outputs a job may leave: a state file with two markers and both auxiliary
\* files; a state file whose marker is not at the start of its line and one
\* auxiliary file; no state file at all.
JobOutputs(k) ==
    { [n \in {StateFileName, GieA, GieB} |->
          CASE n = StateFileName ->
                   << <<"T", "=", " ", "0">>, XLine(k),
                      <<"T", "=", " ", "0", ".", "5">>, XLine(k) >>
            [] n = GieA -> <<GLine(k)>>
            [] OTHER -> <<HLine(k)>>],
      [n \in {StateFileName, GieA} |->
          IF n = StateFileName
          THEN << XLine(k), <<" ", " ", "T", "=", "9">> >>
          ELSE <<GLine(k)>>],
      [n \in {GieA, GieB} |-> IF n = GieA THEN <<GLine(k)>> ELSE <<HLine(k)>>] }

----------------------------------------------------------------------------
\* SpecMerge: a caller that submits jobs and merges their timelines, again and
\* again, as phase1 (no gie) and phase3 (gie names) do.

MergeFrame == UNCHANGED <<genVars, orchVars, unitVars>>

MergeInit ==
    /\ UnitIdle
    /\ LaunchIdle
    /\ MergeIdle
    /\ NoOrchestrator
    /\ nbActuator = 1
    /\ nbPossibility = 2
    /\ nbIterations = SetNbIteration(ListObjToAnimate(1), 0)
    /\ phaseNum = << <<0>>, <<1>> >>
    /\ phaseNumClass = << <<0>>, <<1>> >>
    /\ genPc = "done"
    /\ gi = 0
    /\ gnb = 2

\* The arguments of the two calls of the source: phase1 merges under
\* stateFileName with no gie, phase3 under 'step2_'+stateFileName with the gie
\* names it found.
MergeArgs ==
    { [name |-> StateFileName, gie |-> <<>>],
      [name |-> Step2Name(StateFileName), gie |-> <<GieA, GieB>>] }

\* Every file the call writes is there already, with content.
AllStale(dir, name, gie) ==
    /\ name \in DOMAIN dir
    /\ dir[name] # <<>>
    /\ gie # <<>>
    /\ \A g \in 1..Len(gie) : gie[g] \in DOMAIN dir /\ dir[gie[g]] # <<>>

\* results = startSofa(self.listSofaScene, ...): the call is entered.
MSubmit ==
    /\ mPc \in {"idle", "merged"}
    /\ \E n \in 1..MaxJobs : Submit([k \in 1..n |-> [PHASE |-> k]], nbrCPU)
    /\ mPc' = "launched"
    /\ mName' = <<>>
    /\ mGie' = <<>>
    /\ mRaised' = "none"
    /\ mStale' = FALSE
    /\ UNCHANGED debugDir
    /\ MergeFrame

MJobFinish ==
    /\ mPc = "launched"
    /\ \E k \in 1..Len(jobStatus) :
         /\ \E out \in JobOutputs(k) : JobFinish(k, out)
         /\ finishOrder' = Append(finishOrder, k)
    /\ UNCHANGED mergeVars
    /\ MergeFrame

\* Mutant of MStartSofaReturn: startSofa returns while jobs are running.
MStartSofaReturnEarly ==
    /\ mPc = "launched"
    /\ results' = StartSofaResults
    /\ mPc' = "returned"
    /\ UNCHANGED <<listSofaScene, jobStatus, jobDirs, finishOrder, nbWorkers>>
    /\ UNCHANGED <<debugDir, mName, mGie, mRaised, mStale>>
    /\ MergeFrame

\* startSofa returns.
MStartSofaReturn ==
    /\ mPc = "launched"
    /\ AllJobsDone
    /\ results' = StartSofaResults
    /\ mPc' = "returned"
    /\ UNCHANGED <<listSofaScene, jobStatus, jobDirs, finishOrder, nbWorkers>>
    /\ UNCHANGED <<debugDir, mName, mGie, mRaised, mStale>>
    /\ MergeFrame

\* self.packageBuilder.copyAndCleanState(results, periodSaveGIE, name, gie)
MMerge ==
    /\ mPc = "returned"
    /\ \E a \in MergeArgs :
         \E r \in {CopyAndCleanState(debugDir, results, jobDirs, periodSaveGIE,
                                     a.name, a.gie)} :
             /\ debugDir' = r.dir
             /\ mRaised' = r.raised
             /\ mName' = a.name
             /\ mGie' = a.gie
             /\ mStale' = AllStale(debugDir, a.name, a.gie)
    /\ mPc' = "merged"
    /\ UNCHANGED launchVars
    /\ MergeFrame

MergeNext == MSubmit \/ MJobFinish \/ MStartSofaReturn \/ MMerge

SpecMerge == MergeInit /\ [][MergeNext]_vars

----------------------------------------------------------------------------
\* SpecLauncher: one call of the caller of SpecMerge with a launcher that is not held to its
\* contract: the list it hands back may lack the last result, hold a result
\* twice, or be in reverse order.

LauncherResults ==
    LET res == StartSofaResults
    IN  { res,
          SubSeq(res, 1, Len(res) - 1),
          Append(res, res[1]),
          [k \in 1..Len(res) |-> res[Len(res) + 1 - k]] }

\* startSofa returns one of these lists.
LStartSofaReturn ==
    /\ mPc = "launched"
    /\ AllJobsDone
    /\ results' \in LauncherResults
    /\ mPc' = "returned"
    /\ UNCHANGED <<listSofaScene, jobStatus, jobDirs, finishOrder, nbWorkers>>
    /\ UNCHANGED <<debugDir, mName, mGie, mRaised, mStale>>
    /\ MergeFrame

\* One call of the caller: the jobs are submitted once.
LauncherNext ==
    \/ (mPc = "idle" /\ MSubmit)
    \/ MJobFinish
    \/ LStartSofaReturn
    \/ MMerge

SpecLauncher == MergeInit /\ [][LauncherNext]_vars

----------------------------------------------------------------------------
\* ReduceModel: helpers

MaxModes == 2       \* most modes the basis extraction returns
MaxSelection == 2   \* longest explicit phasesToExecute list
OrchActuators == 2  \* most actuators of a ReduceModel (Spec)

ModesFileName == <<"m", "o", "d", "e", "s", ".", "t", "x", "t">>
ElmtsSuffix == <<"_", "e", "l", "m", "t", "s", ".", "t", "x", "t">>
ReducedSuffix == <<"_", "r", "e", "d", "u", "c", "e", "d", ".", "t", "x", "t">>
DebugSceneName ==
    <<"d", "e", "b", "u", "g", "_", "s", "c", "e", "n", "e", ".", "p", "y">>

EndsWith(name, suffix) ==
    /\ Len(name) >= Len(suffix)
    /\ SubSeq(name, Len(name) - Len(suffix) + 1, Len(name)) = suffix

\* The names glob.glob(dir + "*" + suffix) finds, as a set; glob returns them in
\* an order it does not specify.
Glob(dir, suffix) == {n \in DOMAIN dir : EndsWith(n, suffix)}

\* Every order in which a set of names can be listed.
Listings(S) == {q \in [1..Cardinality(S) -> S] : \A x \in S : \E i \in DOMAIN q : q[i] = x}

IsSpace(c) == c \in {" ", "\t"}

RECURSIVE SplitFrom(_, _, _)
\* str.split(): the maximal runs of non-blank characters, in order.
SplitFrom(line, cur, acc) ==
    IF line = <<>> THEN (IF cur = <<>> THEN acc ELSE Append(acc, cur))
    ELSE IF IsSpace(Head(line))
         THEN SplitFrom(Tail(line), <<>>, IF cur = <<>> THEN acc ELSE Append(acc, cur))
         ELSE SplitFrom(Tail(line), Append(cur, Head(line)), acc)

Split(line) == SplitFrom(line, <<>>, <<>>)

DigitOf(c) == CHOOSE d \in 0..9 : DigitChar(d) = c

IsNumeral(tok) ==
    /\ tok # <<>>
    /\ \A i \in 1..Len(tok) : \E d \in 0..9 : DigitChar(d) = tok[i]

RECURSIVE NumeralValue(_)
NumeralValue(tok) ==
    IF tok = <<>> THEN 0
    ELSE 10 * NumeralValue(SubSeq(tok, 1, Len(tok) - 1)) + DigitOf(tok[Len(tok)])

\* int(s) for a token: an optional sign, then digits; ValueError otherwise.
PyInt(tok) ==
    IF tok # <<>> /\ Head(tok) \in {"-", "+"}
    THEN IF IsNumeral(Tail(tok))
         THEN [raised |-> "none",
               val |-> IF Head(tok) = "-" THEN 0 - NumeralValue(Tail(tok))
                       ELSE NumeralValue(Tail(tok))]
         ELSE [raised |-> "ValueError", val |-> 0]
    ELSE IF IsNumeral(tok)
         THEN [raised |-> "none", val |-> NumeralValue(tok)]
         ELSE [raised |-> "ValueError", val |-> 0]

\* Mutant of CheckNodeNbr: the last token of the first line is read.
CheckNodeNbrLast(dir, modeFileName) ==
    IF ~Exists(dir, modeFileName)
    THEN [raised |-> "none", val |-> -1]
    ELSE LET first == IF dir[modeFileName] = <<>> THEN <<>> ELSE dir[modeFileName][1]
             lineSplit == Split(first)
         IN  IF Len(lineSplit) < 2
             THEN [raised |-> "IndexError", val |-> -1]
             ELSE PyInt(lineSplit[Len(lineSplit)])

\* PackageBuilder.checkNodeNbr: the second token of the first line of the modes
\* file; an absent file is reported on the console and -1 is returned.
CheckNodeNbr(dir, modeFileName) ==
    IF ~Exists(dir, modeFileName)
    THEN [raised |-> "none", val |-> -1]
    ELSE LET first == IF dir[modeFileName] = <<>> THEN <<>> ELSE dir[modeFileName][1]
             lineSplit == Split(first)
         IN  IF Len(lineSplit) < 2
             THEN [raised |-> "IndexError", val |-> -1]
             ELSE PyInt(lineSplit[2])

\* The modes file the basis extraction writes for a given number of modes: the
\* first line holds the number of degrees of freedom and the number of modes.
ModesFile(count) == << <<"9", " ">> \o Str(count), <<"0", ".", "5">> >>

\* generateListOfPhase as a function of its arguments (the loops above, for
\* arguments on which no assignment is out of range).
PhaseNumOf(nbPoss, nbAct) ==
    [i \in 1..nbPoss |->
        FillRow([j \in 1..nbAct |-> 0], BinDigits(i - 1), 0, nbAct).row]

RECURSIVE ClassFrom(_, _, _)
ClassFrom(rows, nb, nbAct) ==
    IF nb > nbAct THEN <<>>
    ELSE SelectSeq(rows, LAMBDA r : SumSeq(r) = nb) \o ClassFrom(rows, nb + 1, nbAct)

GenerateListOfPhase(nbPoss, nbAct) == ClassFrom(PhaseNumOf(nbPoss, nbAct), 0, nbAct)

\* list(range(n))
Range0(n) == [i \in 1..n |-> i - 1]

\* list.index(x): the 0-based position of the first element equal to x.
ListIndex(list, x) ==
    (CHOOSE i \in 1..Len(list) :
        list[i] = x /\ \A j \in 1..(i - 1) : list[j] # x) - 1

\* One dictionary of listSofaScene (lines 590-596); the entries that are the same
\* in every job of every ReduceModel (ORIGINALSCENE, LISTOBJTOANIMATE,
\* PERIODSAVEGIE) are left out.
SofaScene(phase, wrapper, pts) ==
    [PHASE |-> phase, PARAMWRAPPER |-> wrapper, nbIterations |-> nbIterations,
     PHASETOSAVE |-> pts, NBROFMODES |-> {}]

RECURSIVE SceneLoop(_, _, _, _, _)
\* The loop  for i in phasesToExecute  of setListSofaScene. The message of the
\* ValueError is built as  str + list, which raises TypeError.
SceneLoop(sel, list, pts, idx, wrapper) ==
    IF sel = <<>> THEN [raised |-> "none", list |-> list, idx |-> idx]
    ELSE LET i == Head(sel)
         IN  IF i >= nbPossibility \/ i < 0
             THEN [raised |-> "TypeError", list |-> list, idx |-> idx]
             ELSE SceneLoop(Tail(sel),
                            Append(list, SofaScene(phaseNumClass[i + 1], wrapper, pts)),
                            pts,
                            IF pts = phaseNumClass[i + 1]
                            THEN ListIndex(phaseNumClass, pts) ELSE idx,
                            wrapper)

\* Mutant of DefaultPhases: the selection is ignored.
DefaultPhasesAll(sel) == Range0(nbPossibility)

\* if not phasesToExecute: phasesToExecute = list(range(nbPossibility))
DefaultPhases(sel) == IF sel = <<>> THEN Range0(nbPossibility) ELSE sel

\* if not self.phaseToSave: self.phaseToSave = [0]*len(phaseNumClass[0])
DefaultPhaseToSave(pts) ==
    IF pts = <<>> THEN [j \in 1..Len(phaseNumClass[1]) |-> 0] ELSE pts

\* ReduceModel.setListSofaScene
SetListSofaScene(sel, pts, idx, wrapper) ==
    [pts |-> DefaultPhaseToSave(pts)]
      @@ SceneLoop(DefaultPhases(sel), <<>>, DefaultPhaseToSave(pts), idx, wrapper)

\* Python's  not x  for an optional integer: None and 0 are false.
NotModes(arg) == arg = {} \/ arg = {0}

ModesValue(arg) == CHOOSE v \in arg : TRUE

\* Mutant of ModesOutOfRange: the upper bound is not checked.
ModesOutOfRangeLow(n, possible) == n <= 0

\* (nbrOfModes <= 0) or (nbrOfModes > nbrOfModesPossible)
ModesOutOfRange(n, possible) == (n <= 0) \/ (n > possible)

\* Lines 742-749 and 833-840: the mode count a phase works with, the value
\* left in reductionParam.nbrOfModes, and whether ValueError is raised.
ResolveModes(n0, stored, possible) ==
    LET n1 == IF n0 = 0 THEN stored ELSE n0
        n2 == IF n1 = -1 THEN possible ELSE n1
    IN  [raised |-> IF ModesOutOfRange(n2, possible) THEN "ValueError" ELSE "none",
         n |-> n2,
         stored |-> IF n1 = -1 THEN possible ELSE stored]

\* phase3, lines 733-734 then 742-749.
ResolveModes3(arg, stored, possible) ==
    ResolveModes(IF NotModes(arg) THEN stored ELSE ModesValue(arg), stored, possible)

\* phase4, lines 833-840.
ResolveModes4(arg, stored, possible) ==
    ResolveModes(IF NotModes(arg) THEN 0 ELSE ModesValue(arg), stored, possible)

----------------------------------------------------------------------------
\* ReduceModel: what each phase does between two calls of startSofa

MeshFilesName == <<"m", "e", "s", "h", "F", "i", "l", "e", "s", ".", "t", "x", "t">>
\* 'reduced_'+packageName+'.py' for the default packageName
PackageFileName ==
    <<"r", "e", "d", "u", "c", "e", "d", "_">>
      \o <<"m", "y", "R", "e", "d", "u", "c", "e", "d", "M", "o", "d", "e", "l", ".", "p", "y">>
ListActiveNodesName ==
    <<"l", "i", "s", "t", "A", "c", "t", "i", "v", "e", "N", "o", "d", "e", "s", ".", "t", "x", "t">>
ElmtsOutName == GieBase \o ElmtsSuffix
MassOutName == <<"m">> \o ReducedSuffix

RECURSIVE Replace(_, _, _)
\* str.replace(old, new) for a non-empty old
Replace(str, old, new) ==
    IF Len(str) < Len(old) THEN str
    ELSE IF SubSeq(str, 1, Len(old)) = old
         THEN new \o Replace(SubSeq(str, Len(old) + 1, Len(str)), old, new)
         ELSE <<Head(str)>> \o Replace(Tail(str), old, new)

\* a in b, for strings
IsSubstr(a, b) ==
    \E i \in 1..(Len(b) + 1) :
        i + Len(a) - 1 <= Len(b) /\ SubSeq(b, i, i + Len(a) - 1) = a

\* PackageBuilder.copy of one file into a directory; when neither copytree nor
\* copy succeeds the handler formats the undefined name e.
Copy(srcDir, name, dstDir) ==
    IF Exists(srcDir, name)
    THEN [raised |-> "none", dir |-> WriteFile(dstDir, name, srcDir[name])]
    ELSE [raised |-> "NameError", dir |-> dstDir]

\* What one job leaves in its directory, by the phase that submitted it; a job
\* that failed leaves nothing.
SceneText(scene) == << <<"p", "h", "a", "s", "e", "=">> \o scene.PHASE >>

Phase1Output(k, scene) ==
    [n \in {StateFileName, DebugSceneName} |->
        IF n = StateFileName THEN << <<"T", "=", " ", "0">>, XLine(k) >>
        ELSE SceneText(scene)]

Phase3Output(k, scene) ==
    [n \in {StateFileName, DebugSceneName, GieDefaultName, ElmtsOutName, MassOutName} |->
        CASE n = StateFileName -> << <<"T", "=", " ", "0">>, XLine(k) >>
          [] n = DebugSceneName -> SceneText(scene)
          [] n = GieDefaultName -> <<GLine(k)>>
          [] n = ElmtsOutName -> <<HLine(k)>>
          [] OTHER -> << <<"M">> >>]

Phase4Output ==
    [n \in {PackageFileName, MeshFilesName} |->
        IF n = PackageFileName THEN << <<"d", "e", "f">> >> ELSE << <<"a", ".", "s", "t", "l">> >>]

\* The directories startSofa's results name once it has returned, by the phase
\* that called it: the jobs of failed left nothing.
JobDirsAfter(stage, scenes, failed) ==
    [k \in 1..Len(scenes) |->
        IF k \in failed THEN EmptyDir
        ELSE CASE stage = "wait1" -> Phase1Output(k, scenes[k])
               [] stage = "wait3" -> Phase3Output(k, scenes[k])
               [] OTHER -> Phase4Output]

\* The directories after phase3's startSofa: the jobs of failed left nothing;
\* or every job ran, and none got as far as writing an error-indicator file.
Phase3Dirs(scenes, failed) ==
    {JobDirsAfter("wait3", scenes, failed)} \cup
    IF failed # {} THEN {}
    ELSE { [k \in 1..Len(scenes) |->
              LET out == Phase3Output(k, scenes[k])
              IN  [n \in {m \in DOMAIN out : ~EndsWith(m, GieSuffix)} |-> out[n]]] }

\* phase1, lines 668-669, on the results of startSofa.
Phase1Finish(dbg, res, dirs, idx) ==
    LET m == CopyAndCleanState(dbg, res, dirs, periodSaveGIE, StateFileName, <<>>)
    IN  IF m.raised # "none"
        THEN [raised |-> m.raised, debugDir |-> m.dir, used |-> FALSE]
        ELSE IF ~PyIndexOK(idx, Len(res))
        THEN [raised |-> "IndexError", debugDir |-> m.dir, used |-> TRUE]
        ELSE LET cp == Copy(dirs[res[PyPos(idx, Len(res))].directory], DebugSceneName, m.dir)
             IN  [raised |-> cp.raised, debugDir |-> cp.dir, used |-> TRUE]

\* The directory of results[self.phaseToSaveIndex], when there is such a result.
RefDir(res, dirs, idx) ==
    IF PyIndexOK(idx, Len(res)) THEN dirs[res[PyPos(idx, Len(res))].directory]
    ELSE EmptyDir

\* The lists glob.glob can return for a set of names, <<>> when there is none.
GlobLists(dir, suffix) == Listings(Glob(dir, suffix))

\* phase3, lines 770-798, on the results of startSofa; ef, mf and gf are the
\* lists the three glob calls returned.
Phase3Finish(dbg, data, res, dirs, idx, saved, gies, mass, ef, mf, gf) ==
    LET keep == [raised |-> "none", debugDir |-> dbg, dataDir |-> data,
                 savedElementsFilesNames |-> saved, gieFilesNames |-> gies,
                 massName |-> mass, used |-> TRUE]
    IN  IF ~PyIndexOK(idx, Len(res))
        THEN [keep EXCEPT !.raised = "IndexError"]
        ELSE
          LET ref == RefDir(res, dirs, idx)
              saved1 == IF ef # <<>> THEN ef ELSE saved
              dbg1 == CopyGie(ref, dbg, saved1)
              s1 == [keep EXCEPT !.savedElementsFilesNames = saved1, !.debugDir = dbg1]
          IN  IF mf = <<>>
              THEN [s1 EXCEPT !.raised = "IndexError"]
              ELSE
                LET cp == Copy(ref, mf[1], data)
                    s2 == [s1 EXCEPT !.massName = [dir |-> PyPos(idx, Len(res)), name |-> mf[1]],
                                     !.dataDir = cp.dir]
                IN  IF cp.raised # "none"
                    THEN [s2 EXCEPT !.raised = cp.raised]
                    ELSE IF gf = <<>>
                    THEN [s2 EXCEPT !.raised = "IOError"]
                    ELSE LET m == CopyAndCleanState(dbg1, res, dirs, periodSaveGIE,
                                                    Step2Name(StateFileName), gf)
                         IN  [s2 EXCEPT !.gieFilesNames = gf, !.debugDir = m.dir,
                                        !.raised = m.raised]

SwapAt(list, i, j) == [list EXCEPT ![i] = list[j], ![j] = list[i]]

RECURSIVE CorrelateInner(_, _, _, _)
\* for j, elmts in enumerate(savedElementsFilesNames), lines 862-866 (i, j from 1)
CorrelateInner(saved, i, j, tmp) ==
    IF j > Len(saved) THEN [raised |-> "none", saved |-> saved]
    ELSE IF IsSubstr(tmp, saved[j])
         THEN IF i > Len(saved)
              THEN [raised |-> "IndexError", saved |-> saved]
              ELSE CorrelateInner(SwapAt(saved, i, j), i, j + 1, saved[j])
         ELSE CorrelateInner(saved, i, j + 1, tmp)

RECURSIVE Correlate(_, _, _)
\* for i, gie in enumerate(gieFilesNames), lines 860-866 (i from 1)
Correlate(gies, saved, i) ==
    IF i > Len(gies) THEN [raised |-> "none", saved |-> saved]
    ELSE LET r == CorrelateInner(saved, i, 1, Replace(gies[i], GieSuffix, <<>>))
         IN  IF r.raised # "none" THEN r ELSE Correlate(gies, r.saved, i + 1)

GieTag == <<"_", "G", "i", "e">>
RIDName(fileName) == Replace(fileName, GieTag, <<"_", "R", "I", "D">>)
WeightName(fileName) == Replace(fileName, GieTag, <<"_", "w", "e", "i", "g", "h", "t">>)
ActiveNodesName(fileName) ==
    Replace(fileName, GieTag,
            <<"_", "l", "i", "s", "t", "A", "c", "t", "i", "v", "e", "N", "o", "d", "e", "s">>)

RECURSIVE SortedNodes(_)
\* sorted(...) of a set of node numbers
SortedNodes(S) ==
    IF S = {} THEN <<>>
    ELSE LET m == CHOOSE x \in S : \A y \in S : x <= y
         IN  <<m>> \o SortedNodes(S \ {m})

RECURSIVE UnionNodes(_)
UnionNodes(lists) ==
    IF lists = <<>> THEN {}
    ELSE {Head(lists)[k] : k \in 1..Len(Head(lists))} \cup UnionNodes(Tail(lists))

\* Mutant of NodeLines: the items are written last to first.
NodeLinesBackwards(nodes) == [k \in 1..Len(nodes) |-> Str(nodes[Len(nodes) + 1 - k])]

\* for item in ...: file.write("%i\n" % item)
NodeLines(nodes) == [k \in 1..Len(nodes) |-> Str(nodes[k])]

RECURSIVE ExternLoop(_, _, _, _, _, _, _)
\* for i, fileName in enumerate(gieFilesNames), lines 890-904: the two external
\* procedures, run on file i; nodes[i] is the list convertRIDinActiveNodes returns.
ExternLoop(i, gies, saved, data, acts, nodes, calls) ==
    IF i > Len(gies) THEN [raised |-> "none", dataDir |-> data, acts |-> acts, calls |-> calls]
    ELSE LET d1 == WriteFile(WriteFile(data, RIDName(gies[i]), <<>>),
                             WeightName(gies[i]), <<>>)
         IN  IF i > Len(saved)
             THEN [raised |-> "IndexError", dataDir |-> d1, acts |-> acts, calls |-> calls + 1]
             ELSE ExternLoop(i + 1, gies, saved,
                             WriteFile(d1, ActiveNodesName(gies[i]), NodeLines(nodes[i])),
                             Append(acts, nodes[i]), nodes, calls + 2)

\* phase4, lines 827-918, up to the call of startSofa; ef, gf and mf are the lists
\* the three glob calls returned.
Phase4Start(dbg, data, stored, arg, saved, gies, mass, acts, wrapper, ef, gf, mf, nodes) ==
    LET keep == [raised |-> "none", dataDir |-> data, nbrOfModes |-> stored,
                 savedElementsFilesNames |-> saved, gieFilesNames |-> gies,
                 massName |-> mass, activesNodesLists |-> acts,
                 paramWrapper |-> wrapper, check |-> NoModeCheck, calls |-> 0]
    IN  IF ~Exists(data, ModesFileName)
        THEN [keep EXCEPT !.raised = "IOError"]
        ELSE
          LET cn == CheckNodeNbr(data, ModesFileName)
          IN  IF cn.raised # "none"
              THEN [keep EXCEPT !.raised = cn.raised]
              ELSE
                LET rm == ResolveModes4(arg, stored, cn.val)
                    chk == [phase |-> 4, req |-> arg, stored |-> stored, avail |-> cn.val,
                            count |-> rm.n, raised |-> rm.raised, submitted |-> FALSE]
                    s1 == [keep EXCEPT !.nbrOfModes = rm.stored, !.check = chk]
                IN  IF rm.raised # "none"
                    THEN [s1 EXCEPT !.raised = rm.raised]
                    ELSE
                      LET saved1 == IF ef # <<>> THEN ef ELSE saved
                          gies1 == IF gf # <<>> THEN gf ELSE gies
                          co == Correlate(gies1, saved1, 1)
                          s2 == [s1 EXCEPT !.savedElementsFilesNames = co.saved,
                                           !.gieFilesNames = gies1]
                      IN  IF co.raised # "none"
                          THEN [s2 EXCEPT !.raised = co.raised]
                          ELSE IF mf = <<>>
                          THEN [s2 EXCEPT !.raised = "IndexError"]
                          ELSE
                            LET s3 == [s2 EXCEPT !.massName = [dir |-> 0, name |-> mf[1]]]
                            IN  IF \E g \in 1..Len(gies1) : ~Exists(dbg, gies1[g])
                                THEN [s3 EXCEPT !.raised = "IOError"]
                                ELSE
                                  LET ex == ExternLoop(1, gies1, co.saved, data, acts, nodes, 0)
                                      s4 == [s3 EXCEPT !.dataDir = ex.dataDir,
                                                       !.activesNodesLists = ex.acts,
                                                       !.calls = ex.calls]
                                  IN  IF ex.raised # "none"
                                      THEN [s4 EXCEPT !.raised = ex.raised]
                                      ELSE [s4 EXCEPT
                                              !.dataDir =
                                                 WriteFile(ex.dataDir, ListActiveNodesName,
                                                    NodeLines(SortedNodes(UnionNodes(ex.acts)))),
                                              !.paramWrapper = "perform",
                                              !.check = [chk EXCEPT !.submitted = TRUE]]

\* PackageBuilder.finalizePackage(results[0]) with addToLib = False; the meshes
\* listed in meshFiles.txt exist.
FinalizePackage(out, meshes, result) ==
    IF ~Exists(result, PackageFileName)
    THEN [raised |-> "IOError", outputDir |-> out, meshDir |-> meshes]
    ELSE LET out1 == WriteFile(out, PackageFileName, result[PackageFileName])
         IN  IF ~Exists(result, MeshFilesName)
             THEN [raised |-> "IOError", outputDir |-> out1, meshDir |-> meshes]
             ELSE [raised |-> "none", outputDir |-> out1,
                   meshDir |-> meshes \cup {result[MeshFilesName][k] :
                                              k \in 1..Len(result[MeshFilesName])}]

----------------------------------------------------------------------------
\* Spec: a ReduceModel on which performReduction is called. SpecPhases: one on
\* which the phases are called one by one while the modes file may be replaced.

MaxCalls == 2         \* most calls of phase1..phase4 made one by one (SpecPhases)
MaxFailedJobs == 1    \* most jobs of one submission that fail
PhasesActuators == 1  \* most actuators of a ReduceModel in SpecPhases

\* The valid phase indices a caller picks from: both ends of the range and 1.
PhaseChoices == {0, 1, nbPossibility - 1}

\* phasesToExecute: None (<<>>), a list of distinct valid indices, or a list with
\* an index just outside the range.
Selections ==
    {<<>>, <<-1>>, <<nbPossibility>>, <<0, nbPossibility>>} \cup
    UNION {{q \in [1..len -> PhaseChoices] :
               \A i, j \in 1..len : i # j => q[i] # q[j]} : len \in 1..MaxSelection}

\* phasesToExecute of a phase called on its own: None, the last phase, or the
\* first index outside the range.
OwnSelections == {<<>>, <<nbPossibility - 1>>, <<nbPossibility>>}

\* nbrOfModes: None ({}) or an integer.
ModesArgs == {{}} \cup {{v} : v \in (-1)..(MaxModes + 1)}

\* The lists convertRIDinActiveNodes returns.
ActiveNodeLists == {<<5, 1, 3>>, <<3, 4>>}

\* The modes file a user puts in the data directory: one with more modes than
\* the basis extraction returns.
ModesFileChoices == {ModesFile(MaxModes + 1)}

Ev(phase, what) == [phase |-> phase, what |-> what]

\* log is kept for performReduction only.
Trace(c, evs) == IF c = "perform" THEN log \o evs ELSE log

\* Mutant of PcOnRaise: performReduction goes on with the next phase.
PcOnRaiseContinue(c, next) == IF c = "perform" THEN next ELSE "idle"

\* An exception raised in a phase leaves performReduction (lines 618-621 have no
\* handler); a phase called on its own returns to the caller.
PcOnRaise(c, next) == IF c = "perform" THEN "failed" ELSE "idle"

PcOnReturn(c, next) == IF c = "perform" THEN next ELSE "idle"

\* Mutant of PcAfter: an exception does not end the phase.
PcAfterReturn(c, next, exc) == PcOnReturn(c, next)

PcAfter(c, next, exc) == IF exc = "none" THEN PcOnReturn(c, next) ELSE PcOnRaise(c, next)

CallAfter(c) == IF c = "perform" THEN "perform" ELSE "none"

Outcome(phase, exc) == Ev(phase, IF exc = "none" THEN "end" ELSE "raise")

OrchFrame == UNCHANGED <<genVars, mPc, mName, mGie, mRaised, mStale, unitVars>>

\* The debug directory an earlier reduction left in the output directory.
StaleDebugDir ==
    [n \in {StateFileName} |-> << <<"T", "=", " ", "6">>, XLine(9) >>]

\* A ReduceModel constructed for nbAct actuators in an output directory whose
\* debug directory is dbg, with phaseToSave None, the second phase or the last.
OrchInit(nbAct, dbg) ==
    /\ UnitIdle
    /\ LaunchIdle
    /\ debugDir = dbg
    /\ mPc = "idle"
    /\ mName = <<>>
    /\ mGie = <<>>
    /\ mRaised = "none"
    /\ mStale = FALSE
    /\ Constructed
    /\ nbActuator = nbAct
    /\ nbPossibility = Pow2(nbActuator)
    /\ nbIterations = SetNbIteration(ListObjToAnimate(nbActuator), 0)
    /\ phaseNum = PhaseNumOf(nbPossibility, nbActuator)
    /\ phaseNumClass = GenerateListOfPhase(nbPossibility, nbActuator)
    /\ genPc = "done"
    /\ gi = 0
    /\ gnb = nbActuator + 1
    /\ phaseToSave \in {<<>>} \cup {phaseNumClass[k] : k \in {2, nbPossibility}}

Idle == pc = "idle" /\ call = "none"

\* The arguments of performReduction are kept for its later phases.
NewCall(sel, modes) ==
    /\ argPhases' = sel
    /\ argModes' = modes
    /\ nbCalls' = nbCalls + 1

\* A phase called on its own.
OwnCall ==
    /\ nbCalls' = nbCalls + 1
    /\ UNCHANGED <<argPhases, argModes>>

SameCall == UNCHANGED <<argPhases, argModes, nbCalls>>

\* The local results are not used after a phase.
DropResults ==
    /\ jobStatus' = <<>>
    /\ jobDirs' = <<>>
    /\ results' = <<>>
    /\ UNCHANGED <<listSofaScene, finishOrder, nbWorkers>>

RefUsed(stage) ==
    [used |-> TRUE, stage |-> stage, index |-> phaseToSaveIndex, save |-> phaseToSave,
     phases |-> [k \in 1..Len(listSofaScene) |-> listSofaScene[k].PHASE],
     gie |-> FALSE]

\* phase1 up to startSofa, lines 649-659.
P1Begin(c, sel) ==
    \E r \in {SetListSofaScene(DefaultPhases(sel), phaseToSave, phaseToSaveIndex,
                                paramWrapper)} :
        /\ phaseToSave' = r.pts
        /\ phaseToSaveIndex' = r.idx
        /\ raised' = r.raised
        /\ IF r.raised = "none"
           THEN /\ Submit(r.list, nbrCPU)
                /\ pc' = "wait1"
                /\ call' = c
                /\ log' = Trace(c, <<Ev(1, "start"), Ev(1, "submit")>>)
           ELSE /\ listSofaScene' = r.list
                /\ UNCHANGED <<jobStatus, jobDirs, finishOrder, nbWorkers, results>>
                /\ pc' = PcOnRaise(c, "phase2")
                /\ call' = CallAfter(c)
                /\ log' = Trace(c, <<Ev(1, "start"), Ev(1, "raise")>>)
        /\ refUse' = NoRefUse
        /\ modeCheck' = NoModeCheck
        /\ UNCHANGED <<debugDir, nbrOfModes, paramWrapper, dataDir, gieFilesNames, savedElementsFilesNames, massName,
                       activesNodesLists, outputDir, meshDir>>
        /\ OrchFrame

\* performReduction(phasesToExecute, nbrOfModes), up to the first startSofa.
PerformReduction ==
    /\ Idle
    /\ nbCalls = 0
    /\ \E sel \in Selections, modes \in ModesArgs :
         NewCall(sel, modes) /\ P1Begin("perform", sel)

\* phase1(phasesToExecute), up to startSofa.
Phase1 ==
    /\ Idle
    /\ nbCalls < MaxCalls
    /\ OwnCall
    /\ \E sel \in OwnSelections : P1Begin("phase1", sel)

\* The jobs that may have failed when startSofa returns.
FailedSets ==
    {F \in SUBSET (1..Len(listSofaScene)) : Cardinality(F) <= MaxFailedJobs}

\* phase1 from the return of startSofa, lines 659-671.
Phase1Return ==
    /\ pc = "wait1"
    /\ \E failed \in FailedSets :
        \E f \in {Phase1Finish(debugDir, StartSofaResults,
                                JobDirsAfter(pc, listSofaScene, failed),
                                phaseToSaveIndex)} :
           /\ debugDir' = f.debugDir
           /\ raised' = f.raised
           /\ refUse' = IF f.used THEN RefUsed(1) ELSE refUse
           /\ pc' = PcAfter(call, "phase2", f.raised)
           /\ log' = Trace(call, <<Outcome(1, f.raised)>>)
    /\ call' = CallAfter(call)
    /\ DropResults
    /\ SameCall
    /\ UNCHANGED <<phaseToSave, phaseToSaveIndex, nbrOfModes, paramWrapper, dataDir,
                   modeCheck, gieFilesNames, savedElementsFilesNames, massName,
                   activesNodesLists, outputDir, meshDir>>
    /\ OrchFrame

\* phase2: readStateFilesAndComputeModes returns ret, having written the modes
\* file unless it failed; without the merged state file it fails.
P2Run(c, ret) ==
    /\ ~Exists(debugDir, StateFileName) => ret = -1
    /\ nbrOfModes' = ret
    /\ dataDir' = IF ret = -1 THEN dataDir
                  ELSE WriteFile(dataDir, ModesFileName, ModesFile(ret))
    /\ raised' = IF ret = -1 THEN "ValueError" ELSE "none"
    /\ pc' = PcAfter(c, "phase3", raised')
    /\ call' = CallAfter(c)
    /\ log' = Trace(c, <<Ev(2, "start"), Ev(2, "extern"), Outcome(2, raised')>>)
    /\ refUse' = NoRefUse
    /\ modeCheck' = NoModeCheck
    /\ UNCHANGED <<launchVars, debugDir, phaseToSave, phaseToSaveIndex, paramWrapper,
                   gieFilesNames, savedElementsFilesNames, massName,
                   activesNodesLists, outputDir, meshDir>>
    /\ OrchFrame

ModesReturned == {-1} \cup 1..MaxModes

\* phase2()
Phase2 ==
    /\ Idle
    /\ nbCalls < MaxCalls
    /\ OwnCall
    /\ \E ret \in ModesReturned : P2Run("phase2", ret)

\* self.phase2() of performReduction
PerformPhase2 ==
    /\ pc = "phase2"
    /\ SameCall
    /\ \E ret \in ModesReturned : P2Run("perform", ret)

\* phase3 up to startSofa, lines 731-761, as a function of the state.
Phase3Start(data, stored, arg, sel, pts, idx, wrapper, list) ==
    LET keep == [raised |-> "none", nbrOfModes |-> stored, check |-> NoModeCheck,
                 pts |-> pts, idx |-> idx, list |-> list, submit |-> FALSE]
    IN  IF ~Exists(data, ModesFileName)
        THEN [keep EXCEPT !.raised = "IOError"]
        ELSE
          LET cn == CheckNodeNbr(data, ModesFileName)
          IN  IF cn.raised # "none"
              THEN [keep EXCEPT !.raised = cn.raised]
              ELSE
                LET rm == ResolveModes3(arg, stored, cn.val)
                    chk == [phase |-> 3, req |-> arg, stored |-> stored, avail |-> cn.val,
                            count |-> rm.n, raised |-> rm.raised, submitted |-> FALSE]
                    s1 == [keep EXCEPT !.nbrOfModes = rm.stored, !.check = chk]
                IN  IF rm.raised # "none"
                    THEN [s1 EXCEPT !.raised = rm.raised]
                    ELSE
                      LET r == SetListSofaScene(DefaultPhases(sel), pts, idx, wrapper)
                          s2 == [s1 EXCEPT !.pts = r.pts, !.idx = r.idx, !.list = r.list]
                      IN  IF r.raised # "none"
                          THEN [s2 EXCEPT !.raised = r.raised]
                          ELSE [s2 EXCEPT
                                  !.list = [k \in 1..Len(r.list) |->
                                              [r.list[k] EXCEPT !.NBROFMODES = {rm.n}]],
                                  !.check = [chk EXCEPT !.submitted = TRUE],
                                  !.submit = TRUE]

P3Begin(c, sel, modes) ==
    \E f \in {Phase3Start(dataDir, nbrOfModes, modes, sel, phaseToSave,
                            phaseToSaveIndex, paramWrapper, listSofaScene)} :
        /\ nbrOfModes' = f.nbrOfModes
        /\ modeCheck' = f.check
        /\ phaseToSave' = f.pts
        /\ phaseToSaveIndex' = f.idx
        /\ raised' = f.raised
        /\ IF f.submit
           THEN /\ Submit(f.list, nbrCPU)
                /\ pc' = "wait3"
                /\ call' = c
                /\ log' = Trace(c, <<Ev(3, "start"), Ev(3, "submit")>>)
           ELSE /\ listSofaScene' = f.list
                /\ UNCHANGED <<jobStatus, jobDirs, finishOrder, nbWorkers, results>>
                /\ pc' = PcOnRaise(c, "phase4")
                /\ call' = CallAfter(c)
                /\ log' = Trace(c, <<Ev(3, "start"), Ev(3, "raise")>>)
        /\ refUse' = NoRefUse
        /\ UNCHANGED <<debugDir, paramWrapper, dataDir, gieFilesNames,
                       savedElementsFilesNames, massName, activesNodesLists, outputDir,
                       meshDir>>
        /\ OrchFrame

\* phase3(phasesToExecute, nbrOfModes), up to startSofa.
Phase3 ==
    /\ Idle
    /\ nbCalls < MaxCalls
    /\ OwnCall
    /\ \E sel \in OwnSelections, modes \in ModesArgs : P3Begin("phase3", sel, modes)

\* self.phase3(phasesToExecute, nbrOfModes) of performReduction
PerformPhase3 ==
    /\ pc = "phase3"
    /\ SameCall
    /\ P3Begin("perform", argPhases, argModes)

\* phase3 from the return of startSofa, lines 761-801.
Phase3Return ==
    /\ pc = "wait3"
    /\ \E failed \in FailedSets :
       \E dirs \in Phase3Dirs(listSofaScene, failed) :
        \E ref \in {RefDir(StartSofaResults, dirs, phaseToSaveIndex)} :
         \E ef \in GlobLists(ref, ElmtsSuffix), mf \in GlobLists(ref, ReducedSuffix),
            gf \in GlobLists(ref, GieSuffix) :
           \E f \in {Phase3Finish(debugDir, dataDir, StartSofaResults, dirs,
                                  phaseToSaveIndex, savedElementsFilesNames,
                                  gieFilesNames, massName, ef, mf, gf)} :
                 /\ refUse' = [RefUsed(3) EXCEPT !.gie = (Glob(ref, GieSuffix) # {})]
                 /\ debugDir' = f.debugDir
                 /\ dataDir' = f.dataDir
                 /\ savedElementsFilesNames' = f.savedElementsFilesNames
                 /\ gieFilesNames' = f.gieFilesNames
                 /\ massName' = f.massName
                 /\ raised' = f.raised
                 /\ pc' = PcAfter(call, "phase4", f.raised)
                 /\ log' = Trace(call, <<Outcome(3, f.raised)>>)
    /\ modeCheck' = NoModeCheck
    /\ call' = CallAfter(call)
    /\ DropResults
    /\ SameCall
    /\ UNCHANGED <<phaseToSave, phaseToSaveIndex, nbrOfModes, paramWrapper,
                   activesNodesLists, outputDir, meshDir>>
    /\ OrchFrame

\* The invocations of the external procedures phase4 has made.
Externs(calls) == [k \in 1..calls |-> Ev(4, "extern")]

\* finalScene, lines 920-926
FinalScene(wrapper, n) == [PARAMWRAPPER |-> wrapper, NBROFMODES |-> {n}, nbIterations |-> 1]

P4Begin(c, modes) ==
    \E ef \in GlobLists(debugDir, ElmtsSuffix), gf \in GlobLists(debugDir, GieSuffix),
       mf \in GlobLists(dataDir, ReducedSuffix) :
      \E nodes \in [1..Len(IF gf # <<>> THEN gf ELSE gieFilesNames) -> ActiveNodeLists] :
        \E f \in {Phase4Start(debugDir, dataDir, nbrOfModes, modes,
                                savedElementsFilesNames, gieFilesNames, massName,
                                activesNodesLists, paramWrapper, ef, gf, mf, nodes)} :
            /\ dataDir' = f.dataDir
            /\ nbrOfModes' = f.nbrOfModes
            /\ savedElementsFilesNames' = f.savedElementsFilesNames
            /\ gieFilesNames' = f.gieFilesNames
            /\ massName' = f.massName
            /\ activesNodesLists' = f.activesNodesLists
            /\ paramWrapper' = f.paramWrapper
            /\ modeCheck' = f.check
            /\ raised' = f.raised
            /\ IF f.raised = "none"
               THEN /\ Submit(<<FinalScene(f.paramWrapper, f.check.count)>>, FinalLauncher)
                    /\ pc' = "wait4"
                    /\ call' = c
                    /\ log' = Trace(c, <<Ev(4, "start")>> \o Externs(f.calls)
                                          \o <<Ev(4, "submit")>>)
               ELSE /\ UNCHANGED launchVars
                    /\ pc' = PcOnRaise(c, "done")
                    /\ call' = CallAfter(c)
                    /\ log' = Trace(c, <<Ev(4, "start")>> \o Externs(f.calls)
                                          \o <<Ev(4, "raise")>>)
            /\ refUse' = NoRefUse
            /\ UNCHANGED <<debugDir, phaseToSave, phaseToSaveIndex, outputDir, meshDir>>
            /\ OrchFrame

\* phase4(nbrOfModes), up to startSofa.
Phase4 ==
    /\ Idle
    /\ nbCalls < MaxCalls
    /\ OwnCall
    /\ \E modes \in ModesArgs : P4Begin("phase4", modes)

\* self.phase4(nbrOfModes) of performReduction
PerformPhase4 ==
    /\ pc = "phase4"
    /\ SameCall
    /\ P4Begin("perform", argModes)

\* phase4 from the return of startSofa, lines 928-929.
Phase4Return ==
    /\ pc = "wait4"
    /\ \E failed \in FailedSets :
        \E f \in {FinalizePackage(outputDir, meshDir,
               JobDirsAfter(pc, listSofaScene, failed)[StartSofaResults[1].directory])} :
           /\ outputDir' = f.outputDir
           /\ meshDir' = f.meshDir
           /\ raised' = f.raised
           /\ pc' = PcAfter(call, "done", f.raised)
           /\ log' = Trace(call, <<Outcome(4, f.raised)>>)
    /\ call' = CallAfter(call)
    /\ DropResults
    /\ SameCall
    /\ modeCheck' = NoModeCheck
    /\ UNCHANGED <<debugDir, phaseToSave, phaseToSaveIndex, nbrOfModes, paramWrapper,
                   dataDir, refUse, gieFilesNames, savedElementsFilesNames,
                   massName, activesNodesLists>>
    /\ OrchFrame

\* Between two calls the user puts a modes file in the data directory, as the
\* message of lines 737-738 asks for.
ReplaceModesFile ==
    /\ Idle
    /\ nbCalls < MaxCalls
    /\ \E content \in ModesFileChoices :
         /\ ~(Exists(dataDir, ModesFileName) /\ dataDir[ModesFileName] = content)
         /\ dataDir' = WriteFile(dataDir, ModesFileName, content)
    /\ UNCHANGED <<launchVars, debugDir, call, pc, argPhases, argModes, phaseToSave,
                   phaseToSaveIndex, nbrOfModes, paramWrapper, raised, log, refUse,
                   modeCheck, gieFilesNames, savedElementsFilesNames, massName,
                   activesNodesLists, outputDir, meshDir, nbCalls>>
    /\ OrchFrame

\* What an earlier training (phase3 of another ReduceModel on the same output
\* directory) has left: the error-indicator and saved-element files in the debug
\* directory, the modes file and the mass file in the data directory.
TrainedOutputs ==
    { [debug |-> [n \in {GieDefaultName, ElmtsOutName} |->
                     IF n = GieDefaultName THEN <<GLine(1)>> ELSE <<HLine(1)>>],
       data |-> [n \in {ModesFileName, MassOutName} |->
                     IF n = ModesFileName THEN ModesFile(MaxModes + 1)
                     ELSE << <<"M">> >>]] }

\* The ReduceModel is constructed on an output directory that holds the outputs
\* of an earlier training.
RestoreTraining ==
    /\ Idle
    /\ nbCalls = 0
    /\ debugDir = EmptyDir
    /\ dataDir = EmptyDir
    /\ \E t \in TrainedOutputs :
         /\ debugDir' = t.debug
         /\ dataDir' = t.data
    /\ UNCHANGED <<launchVars, call, pc, argPhases, argModes, phaseToSave,
                   phaseToSaveIndex, nbrOfModes, paramWrapper, raised, log, refUse,
                   modeCheck, gieFilesNames, savedElementsFilesNames, massName,
                   activesNodesLists, outputDir, meshDir, nbCalls>>
    /\ OrchFrame

Init == \E nbAct \in 1..OrchActuators : OrchInit(nbAct, EmptyDir)

Next ==
    \/ PerformReduction
    \/ Phase1Return
    \/ PerformPhase2
    \/ PerformPhase3
    \/ Phase3Return
    \/ PerformPhase4
    \/ Phase4Return

Spec == Init /\ [][Next]_vars

\* The output directory is new or holds the merged state file of an earlier
\* reduction.
PhasesInit ==
    \E nbAct \in 1..PhasesActuators, dbg \in {EmptyDir, StaleDebugDir} :
        OrchInit(nbAct, dbg)

PhasesNext ==
    \/ Phase1
    \/ Phase2
    \/ Phase3
    \/ Phase4
    \/ Phase1Return
    \/ Phase3Return
    \/ Phase4Return
    \/ ReplaceModesFile

\* SpecPhases: the phases are called one by one, in any order.
SpecPhases == PhasesInit /\ [][PhasesNext]_vars

\* SpecResume: the phases are called one by one on an output directory that
\* holds the outputs of an earlier training.
ResumeNext ==
    \/ RestoreTraining
    \/ (dataDir # EmptyDir /\ PhasesNext)

SpecResume == PhasesInit /\ [][ResumeNext]_vars

\* SpecCorrelate: the file lists of phase4 (lines 843-866) on a debug directory
\* that holds error-indicator and saved-element files of the force fields 'a',
\* 'ab' and 'b', any of them.
CorrelateDirs ==
    { [n \in gs \cup es |-> <<GLine(1)>>] :
        gs \in SUBSET {b \o GieSuffix : b \in {<<"a">>, <<"a", "b">>, <<"b">>}},
        es \in SUBSET {b \o ElmtsSuffix : b \in {<<"a">>, <<"a", "b">>, <<"b">>}} }

\* The two glob calls and the correlation loop.
CorrelateFiles ==
    /\ pc = "idle"
    /\ \E dbg \in CorrelateDirs :
         \E ef \in GlobLists(dbg, ElmtsSuffix), gf \in GlobLists(dbg, GieSuffix) :
           \E co \in {Correlate(IF gf # <<>> THEN gf ELSE gieFilesNames,
                                 IF ef # <<>> THEN ef ELSE savedElementsFilesNames, 1)} :
             /\ debugDir' = dbg
             /\ gieFilesNames' = IF gf # <<>> THEN gf ELSE gieFilesNames
             /\ savedElementsFilesNames' = co.saved
             /\ raised' = co.raised
    /\ pc' = "correlated"
    /\ UNCHANGED <<launchVars, call, argPhases, argModes, phaseToSave,
                   phaseToSaveIndex, nbrOfModes, paramWrapper, dataDir, log, refUse,
                   modeCheck, massName, activesNodesLists, outputDir, meshDir, nbCalls>>
    /\ OrchFrame

SpecCorrelate == OrchInit(1, EmptyDir) /\ [][CorrelateFiles]_vars

----------------------------------------------------------------------------
\* Properties of the timeline merge (SpecMerge)

\* A line that contains "T=".
ContainsTEq(line) == \E i \in 1..(Len(line) - 1) : line[i] = "T" /\ line[i + 1] = "="

Markers(lines) == {i \in 1..Len(lines) : ContainsTEq(lines[i])}

NonMarkerLines(lines) == SelectSeq(lines, LAMBDA l : ~ContainsTEq(l))

\* What the k-th submitted job left under name (nothing when it left no such file).
JobFile(k, name) == IF name \in DOMAIN jobDirs[k] THEN jobDirs[k][name] ELSE <<>>

RECURSIVE SubmittedFiles(_, _)
\* The files name of the first n submitted jobs, laid end to end in the order of
\* submission.
SubmittedFiles(n, name) ==
    IF n = 0 THEN <<>> ELSE SubmittedFiles(n - 1, name) \o JobFile(n, name)

IsDigit(c) == \E d \in 0..9 : DigitChar(d) = c

RECURSIVE ParseInt(_)
\* The number a sequence of decimal digits denotes.
ParseInt(cs) ==
    IF cs = <<>> THEN 0
    ELSE 10 * ParseInt(SubSeq(cs, 1, Len(cs) - 1))
         + (CHOOSE d \in 0..9 : DigitChar(d) = cs[Len(cs)])

\* copyAndCleanState has returned normally.
Merged == mPc = "merged" /\ mRaised = "none"

NbJobs == Len(listSofaScene)

\* C3: the merged file holds the jobs' timeline segments in the order the jobs
\* were submitted, whatever the order in which the jobs completed.
C3_SubmissionOrder ==
    Merged =>
        /\ mName \in DOMAIN debugDir
        /\ NonMarkerLines(debugDir[mName])
             = NonMarkerLines(SubmittedFiles(NbJobs, StateFileName))

\* C3 witness: a merge of two jobs that both wrote data lines, the second
\* submitted having completed first.
C3_Witness ==
    /\ Merged
    /\ finishOrder = <<2, 1>>
    /\ NonMarkerLines(JobFile(1, StateFileName)) # <<>>
    /\ NonMarkerLines(JobFile(2, StateFileName)) # <<>>

\* C4: in the merged file the k-th line containing "T=" is "T= " followed by
\* the decimal value periodSaveGIE*k; every other line is the line the jobs wrote
\* at that place; there are as many marker lines as the jobs wrote in total.
C4_MarkersRenumbered ==
    Merged =>
        LET merged == debugDir[mName]
            raw == SubmittedFiles(NbJobs, StateFileName)
        IN  /\ Len(merged) = Len(raw)
            /\ \A i \in 1..Len(merged) :
                 IF ContainsTEq(merged[i])
                 THEN /\ Len(merged[i]) > 3
                      /\ SubSeq(merged[i], 1, 3) = <<"T", "=", " ">>
                      /\ \A p \in 4..Len(merged[i]) : IsDigit(merged[i][p])
                      /\ ParseInt(SubSeq(merged[i], 4, Len(merged[i])))
                           = periodSaveGIE * Cardinality({j \in Markers(merged) : j <= i})
                 ELSE merged[i] = raw[i]
            /\ Markers(merged) = Markers(raw)

\* C4 witness: a merged file with at least four markers, the last of them two
\* digits long, whose jobs wrote time values of their own and a data line after
\* a marker.
C4_Witness ==
    /\ Merged
    /\ NbJobs >= 2
    /\ LET merged == debugDir[mName]
           raw == SubmittedFiles(NbJobs, StateFileName)
       IN  /\ Cardinality(Markers(merged)) >= 4
           /\ \E i \in Markers(merged) : raw[i] = <<"T", "=", " ", "0", ".", "5">>
           /\ \E i \in Markers(merged) : Len(merged[i]) = 5
           /\ \E i \in 1..(Len(merged) - 1) :
                i \in Markers(merged) /\ (i + 1) \notin Markers(merged)

\* C5: after copyAndCleanState returns, the merged file and every named
\* auxiliary file hold the data of this call's results and nothing else: the
\* auxiliary file is the jobs' files of that name laid end to end, the merged
\* file has exactly the lines of the jobs' state files, whatever the files of
\* these names held before the call.
C5_NoStaleData ==
    Merged =>
        /\ Len(debugDir[mName]) = Len(SubmittedFiles(NbJobs, StateFileName))
        /\ \A i \in 1..Len(debugDir[mName]) :
             ContainsTEq(debugDir[mName][i])
               \/ \E k \in 1..NbJobs : debugDir[mName][i] = XLine(k)
        /\ \A g \in 1..Len(mGie) :
             /\ mGie[g] \in DOMAIN debugDir
             /\ debugDir[mGie[g]] = SubmittedFiles(NbJobs, mGie[g])

\* C5 witness: a merge that found the merged file and every auxiliary file it
\* names already filled by an earlier merge, and wrote all of them.
C5_Witness ==
    /\ Merged
    /\ mStale
    /\ debugDir[mName] # <<>>
    /\ Len(mGie) = 2
    /\ \A g \in 1..Len(mGie) : debugDir[mGie[g]] # <<>>

----------------------------------------------------------------------------
\* Properties of performReduction (Spec)

\* The phases performReduction has started, in order.
Starts == SelectSeq(log, LAMBDA e : e.what = "start")

\* C6: performReduction starts the phases in the order 1, 2, 3, 4, each at most
\* once; every job submission and every invocation of an external procedure
\* belongs to the phase started last; an exception raised by a phase is the last
\* thing that happens: no phase is started, no job is submitted and no external
\* procedure is invoked after it, and no job is left running.
C6_FixedOrderAbortOnFailure ==
    /\ \A i \in 1..Len(Starts) : Starts[i].phase = i
    /\ \A i, j \in 1..Len(log) : i < j => log[i].phase <= log[j].phase
    /\ \A i \in 1..Len(log) : log[i].what = "raise" => i = Len(log)
    /\ (call = "perform" /\ raised # "none") =>
          /\ pc = "failed"
          /\ log # <<>>
          /\ log[Len(log)].what = "raise"
          /\ \A k \in 1..Len(jobStatus) : jobStatus[k] # "running"

\* C6 witness: performReduction has failed in phase3 after the jobs of phase3 ran,
\* phase1 and phase2 having completed.
C6_Witness ==
    /\ pc = "failed"
    /\ Len(Starts) = 3
    /\ \E i \in 1..Len(log) : log[i] = Ev(3, "submit")
    /\ log[Len(log)] = Ev(3, "raise")
    /\ \E i \in 1..Len(log) : log[i] = Ev(2, "end")

\* C7: whenever phase1 or phase3 uses results[phaseToSaveIndex] and the submitted
\* jobs include one whose PHASE is the phase to save, that result exists and is
\* the result of the job whose PHASE is the phase to save.
C7_ReferenceResult ==
    (/\ refUse.used
     /\ \E k \in 1..Len(refUse.phases) : refUse.phases[k] = refUse.save)
    => /\ refUse.index < Len(refUse.phases)
       /\ refUse.phases[refUse.index + 1] = refUse.save

----------------------------------------------------------------------------
\* Properties of the mode count (SpecPhases)

\* phase3 or phase4 has just resolved the mode count it was called with.
ModesResolved == modeCheck.phase \in {3, 4}

\* C8: when phase3 or phase4 is called with a mode count of 0 or less, it raises
\* ValueError and submits no job.
C8_NonPositiveRejected ==
    (ModesResolved /\ modeCheck.req # {} /\ ModesValue(modeCheck.req) <= 0)
    => /\ modeCheck.raised = "ValueError"
       /\ ~modeCheck.submitted

\* C9: when phase3 or phase4 is called with a mode count above the count the
\* modes file holds, it raises ValueError and submits no job; the mode count of
\* every job phase3 or phase4 submits lies between 1 and the count the modes
\* file holds.
C9_AboveAvailableRejected ==
    /\ (ModesResolved /\ modeCheck.req # {}
          /\ ModesValue(modeCheck.req) > modeCheck.avail)
       => /\ modeCheck.raised = "ValueError"
          /\ raised = "ValueError"
          /\ ~modeCheck.submitted
          /\ pc \notin {"wait3", "wait4"}
    /\ pc \in {"wait3", "wait4"} =>
          /\ ModesResolved
          /\ modeCheck.submitted
          /\ modeCheck.avail = CheckNodeNbr(dataDir, ModesFileName).val
          /\ \A k \in 1..Len(listSofaScene) :
               /\ listSofaScene[k].NBROFMODES = {modeCheck.count}
               /\ modeCheck.count >= 1
               /\ modeCheck.count <= modeCheck.avail

\* C9 witness: phase4 was called with a mode count above the count of the modes
\* file and raised ValueError.
C9_Witness ==
    /\ modeCheck.phase = 4
    /\ modeCheck.req # {}
    /\ ModesValue(modeCheck.req) > modeCheck.avail
    /\ modeCheck.avail >= 1
    /\ raised = "ValueError"

\* C10: when phase3 or phase4 is called without a mode count, the mode count it
\* works with is the count the modes file holds at that call.
C10_NoneUsesAvailable ==
    (ModesResolved /\ modeCheck.req = {}) => modeCheck.count = modeCheck.avail

----------------------------------------------------------------------------
\* Properties of the job list (Spec)

\* phasesToExecute of the performReduction call holds an index outside
\* 0..nbPossibility-1.
InvalidSelection ==
    \E i \in 1..Len(argPhases) : argPhases[i] < 0 \/ argPhases[i] >= nbPossibility

\* C11: when performReduction is called with a phase index outside
\* 0..nbPossibility-1, phase1 raises ValueError and no job is submitted.
C11_InvalidIndexRejected ==
    (call = "perform" /\ InvalidSelection)
    => /\ raised = "ValueError"
       /\ pc = "failed"
       /\ jobStatus = <<>>

\* The all-zero vector of the length of a phase.
NoActuation == [j \in 1..nbActuator |-> 0]

\* C12: every time phase1 submits jobs, there is one job per index of the
\* selection (of range(nbPossibility) when there is no selection), in the order
\* of the selection; job k carries the phase phaseNumClass[selection[k]],
\* nbIterations, and as phase to save the configured one, or the all-zero
\* vector when none was configured.
C12_OneJobPerSelectedPhase ==
    [][(pc = "idle" /\ pc' = "wait1") =>
         LET sel == IF argPhases' = <<>> THEN Range0(nbPossibility) ELSE argPhases'
             marker == IF phaseToSave = <<>> THEN NoActuation ELSE phaseToSave
         IN  /\ Len(listSofaScene') = Len(sel)
             /\ \A k \in 1..Len(sel) :
                  /\ listSofaScene'[k].PHASE = phaseNumClass[sel[k] + 1]
                  /\ listSofaScene'[k].nbIterations = nbIterations
                  /\ listSofaScene'[k].PHASETOSAVE = marker]_vars

\* C12 witness: phase1 has submitted the jobs of a selection of two phases given
\* in descending order, no phase to save having been configured.
C12_Witness ==
    /\ pc = "wait1"
    /\ call = "perform"
    /\ Len(argPhases) = 2
    /\ argPhases[1] > argPhases[2]
    /\ Len(listSofaScene) = 2
    /\ listSofaScene[1].PHASETOSAVE = NoActuation
    /\ listSofaScene[1].PHASE # NoActuation
    /\ nbIterations > 0

\* C13: a merge under stateFileName (phase1) of a result list that is not the
\* list of the submitted jobs in submission order does not take place: the call
\* ends with an error and leaves no merged state file.
C13_ResultListVerified ==
    (mPc = "merged" /\ mName = StateFileName /\ results # StartSofaResults)
    => /\ mRaised # "none"
       /\ ~Exists(debugDir, StateFileName)

----------------------------------------------------------------------------
\* Properties of the parameter wrapper (SpecResume)

\* C14: every job phase3 has submitted carries the wrapper of the training
\* stage (prepareECSW), whatever was called before.
C14_TrainingWrapper ==
    pc = "wait3" => \A k \in 1..Len(listSofaScene) :
                        listSofaScene[k].PARAMWRAPPER = "prepare"

----------------------------------------------------------------------------
\* Properties of phase4 (SpecCorrelate, SpecResume)

\* The saved-element file name of the base name of an error-indicator file name.
ElmtsOf(gie) == Replace(gie, GieSuffix, <<>>) \o ElmtsSuffix

\* C15: when the correlation loop of phase4 has ended, every error-indicator file
\* whose saved-element file is in the list has it at its own index.
C15_AlignedByBaseName ==
    (pc = "correlated" /\ raised = "none") =>
        \A i \in 1..Len(gieFilesNames) :
            (\E j \in 1..Len(savedElementsFilesNames) :
                 savedElementsFilesNames[j] = ElmtsOf(gieFilesNames[i]))
            => /\ i <= Len(savedElementsFilesNames)
               /\ savedElementsFilesNames[i] = ElmtsOf(gieFilesNames[i])

\* The lines of data/listActiveNodes.txt.
FinalNodeLines == dataDir[ListActiveNodesName]

\* C16: when phase4 submits its job, listActiveNodes.txt holds numbers in
\* strictly ascending order, and every node of every list of activesNodesLists
\* is one of them.
C16_SortedUnionOfNodes ==
    pc = "wait4" =>
        /\ Exists(dataDir, ListActiveNodesName)
        /\ \A k \in 1..Len(FinalNodeLines) :
              \A c \in 1..Len(FinalNodeLines[k]) : IsDigit(FinalNodeLines[k][c])
        /\ \A k \in 1..(Len(FinalNodeLines) - 1) :
              ParseInt(FinalNodeLines[k]) < ParseInt(FinalNodeLines[k + 1])
        /\ \A l \in 1..Len(activesNodesLists) :
              \A n \in 1..Len(activesNodesLists[l]) :
                 \E k \in 1..Len(FinalNodeLines) :
                    ParseInt(FinalNodeLines[k]) = activesNodesLists[l][n]

\* C16 witness: the lists {1,3,5} and {3,4} have given the file 1, 3, 4, 5.
C16_Witness ==
    /\ pc = "wait4"
    /\ Len(activesNodesLists) = 2
    /\ {activesNodesLists[1][k] : k \in 1..Len(activesNodesLists[1])} = {1, 3, 5}
    /\ {activesNodesLists[2][k] : k \in 1..Len(activesNodesLists[2])} = {3, 4}
    /\ Exists(dataDir, ListActiveNodesName)
    /\ FinalNodeLines = << <<"1">>, <<"3">>, <<"4">>, <<"5">> >>

----------------------------------------------------------------------------
\* Properties of phase3 (Spec)

\* phase3 has returned from startSofa, the reference index is one of a result,
\* and the directory of that result held no error-indicator file.
NoGieInReference ==
    /\ refUse.used
    /\ refUse.stage = 3
    /\ PyIndexOK(refUse.index, Len(refUse.phases))
    /\ ~refUse.gie

\* C17: when the directory of the reference job holds no error-indicator file,
\* phase3 raises IOError, the merge under 'step2_'+stateFileName has not run and
\* phase4 is not started.
C17_MissingGieIsIOError ==
    (call = "perform" /\ NoGieInReference)
    => /\ raised = "IOError"
       /\ pc = "failed"
       /\ ~Exists(debugDir, Step2Name(StateFileName))
       /\ \A e \in 1..Len(log) : log[e].phase # 4

----------------------------------------------------------------------------
\* Properties of phase3 (SpecPhases)

\* The file name is, in the debug directory, the same before and after the step.
FileKept(name) ==
    /\ Exists(debugDir, name) <=> Exists(debugDir', name)
    /\ Exists(debugDir, name) => debugDir'[name] = debugDir[name]

\* The name of the timeline of phase3 in the debug directory.
TrainTimeline == <<"s", "t", "e", "p", "2", "_">> \o StateFileName

\* C18: no step of phase3 changes, creates or removes the state file phase1
\* merges (stateFileName): of the state files of the debug directory, the only
\* one a step of phase3 touches is 'step2_'+stateFileName.
C18_SnapshotTimelineKept ==
    [][(pc = "wait3" \/ pc' = "wait3") =>
          \A n \in (DOMAIN debugDir) \cup (DOMAIN debugDir') :
              (EndsWith(n, StateFileName) /\ n # TrainTimeline)
              => FileKept(n)]_vars

\* C18 witness: phase3 has merged its timeline in a debug directory that holds
\* the timeline of phase1.
C18_Witness ==
    /\ refUse.used
    /\ refUse.stage = 3
    /\ raised = "none"
    /\ Exists(debugDir, StateFileName)
    /\ debugDir[StateFileName] # <<>>
    /\ Exists(debugDir, TrainTimeline)
    /\ debugDir[TrainTimeline] # <<>>
    /\ debugDir[TrainTimeline] # debugDir[StateFileName]

----------------------------------------------------------------------------
\* Properties of phase2 (Spec)

\* readStateFilesAndComputeModes has been called by phase2 and has returned -1.
ExtractionFailed ==
    /\ \E e \in 1..Len(log) : log[e] = Ev(2, "extern")
    /\ nbrOfModes = -1

\* C19: within performReduction, when readStateFilesAndComputeModes returns -1
\* phase2 raises ValueError, and neither phase3 nor phase4 is started: the jobs
\* submitted last are those of phase1.
C19_ExtractionFailureStops ==
    (call = "perform" /\ ExtractionFailed)
    => /\ raised = "ValueError"
       /\ pc = "failed"
       /\ \A e \in 1..Len(log) : log[e].phase \in {1, 2}
       /\ \A k \in 1..Len(listSofaScene) : listSofaScene[k].NBROFMODES = {}
       /\ jobStatus = <<>>

\* C19 witness: phase1 has merged its timeline and the extraction has returned
\* -1 all the same.
C19_Witness ==
    /\ call = "perform"
    /\ ExtractionFailed
    /\ Exists(debugDir, StateFileName)
    /\ log[Len(log)] = Ev(2, "raise")
    /\ raised = "ValueError"

----------------------------------------------------------------------------
\* Properties of phase4 (Spec)

\* C20: when phase4 enters startSofa, it does so with one job and a launcher of
\* one worker, listActiveNodes.txt holds the sorted union of the lists, and the
\* wrapper of the object and of the job is that of the production stage; phase4
\* submits nothing else, and when it ends normally the package file of that
\* job's directory is in the output directory.
C20_SingleFinalJob ==
    [][/\ (pc # "wait4" /\ pc' = "wait4") =>
            /\ Len(listSofaScene') = 1
            /\ jobStatus' = <<"running">>
            /\ nbWorkers' = 1
            /\ Exists(dataDir', ListActiveNodesName)
            /\ dataDir'[ListActiveNodesName]
                 = NodeLines(SortedNodes(UnionNodes(activesNodesLists')))
            /\ paramWrapper' = "perform"
            /\ listSofaScene'[1].PARAMWRAPPER = "perform"
       /\ pc = "wait4" =>
            /\ listSofaScene' = listSofaScene
            /\ nbWorkers' = nbWorkers
            /\ raised' = "none" =>
                 /\ Exists(outputDir', PackageFileName)
                 /\ outputDir'[PackageFileName] = Phase4Output[PackageFileName]]_vars

\* C20 witness: phase4 has ended normally, its single job run by one worker.
C20_Witness ==
    /\ call = "perform"
    /\ pc = "done"
    /\ raised = "none"
    /\ log[Len(log)] = Ev(4, "end")
    /\ Len(listSofaScene) = 1
    /\ nbWorkers = 1
    /\ Exists(outputDir, PackageFileName)
    /\ Exists(dataDir, ListActiveNodesName)

----------------------------------------------------------------------------
\* Properties of the barrier (SpecMerge)

\* C21: the caller is past startSofa, and the debug directory is written, only
\* when every job of the submission has completed.
C21_MergeAfterAllJobs ==
    [][/\ mPc' \in {"returned", "merged"} =>
             \A k \in 1..Len(jobStatus') : jobStatus'[k] = "done"
       /\ debugDir' # debugDir =>
             /\ Len(jobStatus) > 0
             /\ \A k \in 1..Len(jobStatus) : jobStatus[k] = "done"]_vars

\* C21 witness: two jobs were submitted, the second completed first, and the
\* merge has run.
C21_Witness ==
    /\ mPc = "merged"
    /\ Len(jobStatus) = 2
    /\ finishOrder = <<2, 1>>
    /\ Exists(debugDir, mName)
    /\ debugDir[mName] # <<>>

----------------------------------------------------------------------------
\* Properties of the merge on missing files (SpecMerge)

\* A job of the merged submission left no state file, or lacks one of the
\* auxiliary files the merge was asked for.
SomeJobFileMissing ==
    \E k \in 1..Len(jobDirs) :
        \/ StateFileName \notin DOMAIN jobDirs[k]
        \/ \E g \in 1..Len(mGie) : mGie[g] \notin DOMAIN jobDirs[k]

\* C22: a merge over a job whose state file or auxiliary file cannot be read
\* ends with an error.
C22_ReadFailurePropagates ==
    (mPc = "merged" /\ SomeJobFileMissing) => mRaised # "none"

----------------------------------------------------------------------------
\* Properties of repeated phase3 and phase4 calls (SpecResume, SpecPhases)

\* The numbers written in a file of the data directory, one per line.
NodesIn(name) == {ParseInt(dataDir[name][k]) : k \in 1..Len(dataDir[name])}

\* The nodes of the per-file lists the current phase4 call had written, one
\* list per error-indicator file.
NodesOfThisCall ==
    UNION {NodesIn(ActiveNodesName(gieFilesNames[i])) : i \in 1..Len(gieFilesNames)}

\* C31: when phase4 submits its job, listActiveNodes.txt holds the nodes of the
\* lists computed in this call and no other; nodes computed by an earlier call
\* only are not in it.
C31_OnlyThisInvocation ==
    pc = "wait4" =>
        /\ Exists(dataDir, ListActiveNodesName)
        /\ NodesIn(ListActiveNodesName) = NodesOfThisCall

\* phase4 is called with no mode count on a ReduceModel whose listSofaScene
\* holds the jobs of a phase3 call (scenes of a phase, with a mode count) that
\* ended normally, and gets to submit its job.
AssembleAfterTrain ==
    /\ Idle
    /\ raised = "none"
    /\ pc' = "wait4"
    /\ NotModes(modeCheck'.req)
    /\ listSofaScene # <<>>
    /\ \A k \in 1..Len(listSofaScene) :
           "PHASE" \in DOMAIN listSofaScene[k] /\ listSofaScene[k].NBROFMODES # {}

\* C32: the mode count of the final job of a phase4 called with no count is the
\* mode count of the jobs of the most recent phase3, also when that phase3 was
\* given a count smaller than the available one.
C32_SameCountAsTrain ==
    [][AssembleAfterTrain =>
          \A k \in 1..Len(listSofaScene) :
              listSofaScene'[1].NBROFMODES = listSofaScene[k].NBROFMODES]_vars

\* The file is one copy of the saved-element file of a job: its single line.
OneJobCopy(file) == Len(file) = 1 /\ \E k \in 1..MaxJobs : file = <<HLine(k)>>

\* C33: after a phase3 call that ended normally, each saved-element file staged
\* in the debug directory is one copy of the file of the reference job, however
\* many phase3 calls were made before.
C33_StagedOnce ==
    (Idle /\ refUse.stage = 3 /\ raised = "none")
        => \A i \in 1..Len(savedElementsFilesNames) :
               /\ Exists(debugDir, savedElementsFilesNames[i])
               /\ OneJobCopy(debugDir[savedElementsFilesNames[i]])

----------------------------------------------------------------------------
\* Single methods, each applied to an object drawn at the start

\* What the single-method actions leave alone.
UnitFrame == UNCHANGED <<genVars, launchVars, mergeVars, orchVars>>

\* What precedes the mode count on the first line of a modes file.
ModeLineLeads == {<<"N", "D", "O", "F", " ">>, <<"9", " ">>, <<" ", "x", "\t", " ">>}

\* What follows it.
ModeLineTails == {<<>>, <<" ", "e", "x", "t", "r", "a">>, <<" ", "1", " ", "2">>, <<"\t">>}

\* The mode counts written.
ModeCounts == {0, 7, 37}

\* First lines that carry no integer as second token.
BrokenModeLines == {<<>>, <<"N", "D", "O", "F">>, <<"N", "D", "O", "F", " ", "x">>,
                    <<"9", " ", "3", ".", "5">>}

\* The data directories checkNodeNbr is called on: no modes file, an empty one,
\* and modes files with each first line above, followed by one line of values.
ModesDataDirs ==
    {EmptyDir}
      \cup {[n \in {ModesFileName} |-> <<>>]}
      \cup {[n \in {ModesFileName} |-> <<l \o Str(c) \o t, <<"0", ".", "5">> >>] :
               l \in ModeLineLeads, c \in ModeCounts, t \in ModeLineTails}
      \cup {[n \in {ModesFileName} |-> <<b, <<"0", ".", "5">> >>] : b \in BrokenModeLines}

\* packageBuilder.checkNodeNbr(modesFileName)
UCheckNodeNbr ==
    /\ uObj.class = "PackageBuilder"
    /\ uRet.op = "none"
    /\ \E r \in {CheckNodeNbr(uObj.dataDir, ModesFileName)} :
           uRet' = [op |-> "checkNodeNbr", arg |-> ModesFileName,
                    raised |-> r.raised, val |-> r.val]
    /\ UNCHANGED uObj
    /\ UnitFrame

----------------------------------------------------------------------------
\* Properties of checkNodeNbr (SpecUnits)

\* C23: checkNodeNbr on a data directory without the modes file ends with an
\* error and returns no number.
C23_AbsentModesFileFails ==
    (uRet.op = "checkNodeNbr" /\ ~Exists(uObj.dataDir, ModesFileName))
        => uRet.raised # "none"

\* C24: for a modes file whose first line carries an integer as its second
\* blank-separated token, checkNodeNbr returns that integer, whatever follows it
\* on the line.
C24_SecondTokenOfFirstLine ==
    uRet.op = "checkNodeNbr" =>
        \A l \in ModeLineLeads, c \in ModeCounts, t \in ModeLineTails :
            (/\ Exists(uObj.dataDir, ModesFileName)
             /\ uObj.dataDir[ModesFileName] # <<>>
             /\ uObj.dataDir[ModesFileName][1] = l \o Str(c) \o t)
                => (uRet.raised = "none" /\ uRet.val = c)

\* "NDOF 37 extra" gives 37.
C24_Witness ==
    /\ uRet.op = "checkNodeNbr"
    /\ Exists(uObj.dataDir, ModesFileName)
    /\ uObj.dataDir[ModesFileName] # <<>>
    /\ uObj.dataDir[ModesFileName][1]
         = <<"N", "D", "O", "F", " ", "3", "7", " ", "e", "x", "t", "r", "a">>
    /\ uRet.raised = "none"
    /\ uRet.val = 37

----------------------------------------------------------------------------
\* ReductionAnimations.setNbIteration, called on a constructed object

\* How many times a method is called on the object.
MaxUnitCalls == 2

\* The lists of ObjToAnimate params: none, the example of the docstring, a
\* range the increment does not divide, an object with no ramp description, and
\* two objects of which the second needs more iterations.
ActuatorLists ==
    {<<>>,
     <<ObjParams>>,
     <<[incr |-> 5, incrPeriod |-> 10, rangeOfAction |-> 42]>>,
     <<[rangeOfAction |-> 40]>>,
     <<ObjParams, [incr |-> 2, incrPeriod |-> 10, rangeOfAction |-> 40]>>}

\* The nbIterations arguments, in tenths: None ({}), 0, 3.0, 50.2 and 120.
Overrides == {{}, {0}, {30}, {502}, {1200}}

\* math.ceil of a number given in tenths
CeilTenths(t) == 0 - ((0 - t) \div 10)

\* self.nbIterations after setNbIteration(ov) from self.nbIterations = cur:
\* if nbIterations: ... else: the loop over listObjToAnimate
NbIterationsAfter(objs, cur, ov) ==
    IF ov # {} /\ ov # {0}
    THEN CeilTenths(CHOOSE t \in ov : TRUE)
    ELSE SetNbIteration(objs, cur)

\* reductionAnimations.setNbIteration(ov)
USetNbIteration ==
    /\ uObj.class = "ReductionAnimations"
    /\ uObj.calls < MaxUnitCalls
    /\ \E ov \in Overrides :
           /\ uObj' = [uObj EXCEPT
                         !.nbIterations =
                             NbIterationsAfter(uObj.listObjToAnimate, @, ov),
                         !.calls = @ + 1]
           /\ uRet' = [op |-> "setNbIteration", arg |-> ov, raised |-> "none",
                       val |-> 0]
    /\ UnitFrame

\* ReductionAnimations(listObjToAnimate): nbIterations = 0, then setNbIteration()
ReductionAnimationsObjects ==
    {[class |-> "ReductionAnimations", listObjToAnimate |-> objs,
      nbIterations |-> SetNbIteration(objs, 0), calls |-> 0] : objs \in ActuatorLists}

----------------------------------------------------------------------------
\* Properties of setNbIteration (SpecUnits)

\* C25: after setNbIteration with an explicit override, the budget is the
\* ceiling of the override, whatever the actuators and the budget before.
C25_OverrideCeiling ==
    (uRet.op = "setNbIteration" /\ uRet.arg # {})
        => \A t \in uRet.arg : uObj.nbIterations = CeilTenths(t)

\* The ceiling of  ((range/incr) - 1) * period + 2 * period - 1  over the reals
\* for an object carrying incr and incrPeriod, 0 for any other.
RampBudget(obj) ==
    IF {"incr", "incrPeriod"} \subseteq DOMAIN obj
    THEN 0 - ((0 - obj.rangeOfAction * obj.incrPeriod) \div obj.incr)
           + obj.incrPeriod - 1
    ELSE 0

\* The largest of them, 0 for no object.
MaxRampBudget(objs) ==
    IF objs = <<>> THEN 0
    ELSE CHOOSE b \in {RampBudget(objs[k]) : k \in 1..Len(objs)} \cup {0} :
             \A k \in 1..Len(objs) : b >= RampBudget(objs[k])

\* C26: after setNbIteration with no override, the budget is the ceiling of the
\* largest ramp budget of the actuators, 0 when none has one, whatever the
\* budget was before.
C26_MaxOverActuators ==
    (uRet.op = "setNbIteration" /\ uRet.arg = {})
        => uObj.nbIterations = MaxRampBudget(uObj.listObjToAnimate)

----------------------------------------------------------------------------
\* ReductionParam.addParamWrapper and ReductionParam.setFilesName

slash == "/"

RECURSIVE SplitSlashFrom(_, _, _)
\* str.split(slash): the pieces between the separators, empty ones included.
SplitSlashFrom(str, cur, acc) ==
    IF str = <<>> THEN Append(acc, cur)
    ELSE IF Head(str) = slash
         THEN SplitSlashFrom(Tail(str), <<>>, Append(acc, cur))
         ELSE SplitSlashFrom(Tail(str), Append(cur, Head(str)), acc)

SplitSlash(str) == SplitSlashFrom(str, <<>>, <<>>)

\* self.dataFolder = slash+dataDir.split(slash)[-2]+slash ; a dataDir always
\* ends with the separator and so has two pieces at least.
DataFolderOf(dir) ==
    <<slash>> \o SplitSlash(dir)[Len(SplitSlash(dir)) - 1] \o <<slash>>

\* path.split(slash)[-1]
NodeNameOf(path) == SplitSlash(path)[Len(SplitSlash(path))]

MechanicalObjectUp ==
    <<"@", ".", ".", "/", "M", "e", "c", "h", "a", "n", "i", "c", "a", "l", "O",
      "b", "j", "e", "c", "t">>

MechanicalObjectHere ==
    <<"@", ".", "/", "M", "e", "c", "h", "a", "n", "i", "c", "a", "l", "O", "b",
      "j", "e", "c", "t">>

Vec1dTemplate ==
    <<"V", "e", "c", "1", "d", ",", "V", "e", "c", "1", "d">>

\* defaultParamPrepare
DefaultParamPrepare(self, nodeToReduce) ==
    [paramForcefield |->
         [prepareECSW |-> TRUE,
          modesPath |-> self.dataDir \o ModesFileName,
          periodSaveGIE |-> self.periodSaveGIE,
          nbTrainingSet |-> self.nbTrainingSet],
     paramMORMapping |->
         [input |-> MechanicalObjectUp,
          modesPath |-> self.dataDir \o ModesFileName],
     paramMappedMatrixMapping |->
         [nodeToParse |-> <<"@", ".">> \o nodeToReduce,
          template |-> Vec1dTemplate,
          object1 |-> MechanicalObjectHere,
          object2 |-> MechanicalObjectHere,
          timeInvariantMapping1 |-> TRUE,
          timeInvariantMapping2 |-> TRUE,
          performECSW |-> FALSE]]

\* defaultParamPerform
DefaultParamPerform(self, nodeToReduce) ==
    [paramForcefield |->
         [performECSW |-> TRUE,
          modesPath |-> self.dataFolder \o ModesFileName,
          RIDPath |-> self.dataFolder,
          weightsPath |-> self.dataFolder],
     paramMORMapping |->
         [input |-> MechanicalObjectUp,
          modesPath |-> self.dataFolder \o ModesFileName],
     paramMappedMatrixMapping |->
         [nodeToParse |-> <<"@", ".">> \o nodeToReduce,
          template |-> Vec1dTemplate,
          object1 |-> MechanicalObjectHere,
          object2 |-> MechanicalObjectHere,
          timeInvariantMapping1 |-> TRUE,
          timeInvariantMapping2 |-> TRUE,
          listActiveNodesPath |-> self.dataFolder \o ListActiveNodesName,
          performECSW |-> TRUE,
          usePrecomputedMass |-> TRUE,
          precomputedMassPath |-> self.dataFolder \o self.massName]]

\* The truth value of an optional dict argument: None ({}) and the empty dict
\* are false.
DictTruth(opt) == \E d \in opt : DOMAIN d # {}

\* Mutant of AddParamWrapper: the training defaults whatever the stage.
AddParamWrapperPrepareOnly(self, a) ==
    IF DictTruth(a.paramForcefield) /\ DictTruth(a.paramMappedMatrixMapping)
         /\ DictTruth(a.paramMORMapping)
    THEN self.paramWrapper
    ELSE <<a.nodeToReduce, DefaultParamPrepare(self, a.nodeToReduce)>>

\* self.paramWrapper after addParamWrapper(a.nodeToReduce, a.prepareECSW,
\* a.paramForcefield, a.paramMappedMatrixMapping, a.paramMORMapping); <<>> is
\* None. With the three dicts given nothing is assigned.
AddParamWrapper(self, a) ==
    IF DictTruth(a.paramForcefield) /\ DictTruth(a.paramMappedMatrixMapping)
         /\ DictTruth(a.paramMORMapping)
    THEN self.paramWrapper
    ELSE IF a.prepareECSW
         THEN <<a.nodeToReduce, DefaultParamPrepare(self, a.nodeToReduce)>>
         ELSE <<a.nodeToReduce, DefaultParamPerform(self, a.nodeToReduce)>>

\* The five names setFilesName derives from nodeName.
GieFileName(nodeName) ==
    <<"H", "y", "p", "e", "r", "R", "e", "d", "u", "c", "e", "d", "F", "E", "M", "F", "o", "r", "c", "e", "F", "i", "e", "l", "d", "_">>
      \o nodeName \o <<"_", "G", "i", "e", ".", "t", "x", "t">>
RIDFileName(nodeName) == <<"R", "I", "D", "_">> \o nodeName \o <<".", "t", "x", "t">>
WeightFileName(nodeName) ==
    <<"w", "e", "i", "g", "h", "t", "_">> \o nodeName \o <<".", "t", "x", "t">>
ElmtsFileName(nodeName) ==
    <<"e", "l", "m", "t", "s", "_">> \o nodeName \o <<".", "t", "x", "t">>
ListActiveNodesFileName(nodeName) ==
    <<"l", "i", "s", "t", "A", "c", "t", "i", "v", "e", "N", "o", "d", "e", "s", "_">>
      \o nodeName \o <<".", "t", "x", "t">>

\* setFilesName(): unpacking None raises TypeError; otherwise one name is
\* appended to each of the five lists.
SetFilesName(self) ==
    IF self.paramWrapper = <<>>
    THEN [raised |-> "TypeError", self |-> self]
    ELSE LET nodeName == NodeNameOf(self.paramWrapper[1])
         IN  [raised |-> "none",
              self |-> [self EXCEPT
                  !.gieFilesNames = Append(@, GieFileName(nodeName)),
                  !.RIDFilesNames = Append(@, RIDFileName(nodeName)),
                  !.weightsFilesNames = Append(@, WeightFileName(nodeName)),
                  !.savedElementsFilesNames = Append(@, ElmtsFileName(nodeName)),
                  !.listActiveNodesFilesNames =
                      Append(@, ListActiveNodesFileName(nodeName))]]

\* The dataDir of the ReductionParam: outputDir + 'data' + slash
UnitDataDir == <<"/", "o", "/", "d", "a", "t", "a", "/">>

\* Two nodes to reduce with the same trailing segment, and one without parent.
NodesToReduce == {<<"/", "a", "/", "n">>, <<"n">>}

\* A dict a caller passes for one of the three sub-configs.
UserConfig == [performECSW |-> FALSE]

\* The empty dict.
EmptyConfig == [k \in {} |-> FALSE]

\* The arguments of addParamWrapper: no dict, the three dicts, two of them, and
\* the three of which one is empty.
WrapperOverrides ==
    {[paramForcefield |-> {}, paramMappedMatrixMapping |-> {}, paramMORMapping |-> {}],
     [paramForcefield |-> {UserConfig}, paramMappedMatrixMapping |-> {UserConfig},
      paramMORMapping |-> {UserConfig}],
     [paramForcefield |-> {UserConfig}, paramMappedMatrixMapping |-> {},
      paramMORMapping |-> {UserConfig}],
     [paramForcefield |-> {UserConfig}, paramMappedMatrixMapping |-> {EmptyConfig},
      paramMORMapping |-> {UserConfig}]}

WrapperArgs ==
    {[nodeToReduce |-> n, prepareECSW |-> p, paramForcefield |-> o.paramForcefield,
      paramMappedMatrixMapping |-> o.paramMappedMatrixMapping,
      paramMORMapping |-> o.paramMORMapping] :
        n \in NodesToReduce, p \in BOOLEAN, o \in WrapperOverrides}

\* ReductionParam(tolModes, tolGIE, addRigidBodyModes, dataDir)
NewReductionParam ==
    [class |-> "ReductionParam", dataDir |-> UnitDataDir,
     dataFolder |-> DataFolderOf(UnitDataDir), gieFilesNames |-> <<>>,
     RIDFilesNames |-> <<>>, weightsFilesNames |-> <<>>,
     savedElementsFilesNames |-> <<>>, listActiveNodesFilesNames |-> <<>>,
     massName |-> <<>>, periodSaveGIE |-> periodSaveGIE, nbTrainingSet |-> -1,
     paramWrapper |-> <<>>, calls |-> 0]

\* The same after ReduceModel.__init__ has called addParamWrapper(nodeToReduce)
\* and setFilesName() on it.
InitReductionParam(nodeToReduce) ==
    SetFilesName([NewReductionParam EXCEPT
        !.paramWrapper = <<nodeToReduce, DefaultParamPrepare(NewReductionParam, nodeToReduce)>>]).self

\* A new ReductionParam, and the one of a ReduceModel before and after phase3
\* has set massName.
ReductionParamObjects ==
    {NewReductionParam}
      \cup {[InitReductionParam(n) EXCEPT !.massName = m] :
               n \in NodesToReduce, m \in {<<>>, MassOutName}}

\* reductionParam.addParamWrapper(...)
UAddParamWrapper ==
    /\ uObj.class = "ReductionParam"
    /\ uObj.calls < MaxUnitCalls
    /\ \E a \in WrapperArgs :
         \E w \in {AddParamWrapper(uObj, a)} :
           /\ uObj' = [uObj EXCEPT !.paramWrapper = w, !.calls = @ + 1]
           /\ uRet' = [op |-> "addParamWrapper", arg |-> a, raised |-> "none",
                       val |-> w]
    /\ UnitFrame

\* reductionParam.setFilesName()
USetFilesName ==
    /\ uObj.class = "ReductionParam"
    /\ uObj.calls < MaxUnitCalls
    /\ \E r \in {SetFilesName(uObj)} :
           /\ uObj' = [r.self EXCEPT !.calls = @ + 1]
           /\ uRet' = [op |-> "setFilesName", arg |-> 0, raised |-> r.raised,
                       val |-> 0]
    /\ UnitFrame

----------------------------------------------------------------------------
\* Properties of addParamWrapper and setFilesName (SpecUnits)

\* The three dicts were all passed to the call.
AllThreeSupplied(a) ==
    a.paramForcefield # {} /\ a.paramMappedMatrixMapping # {} /\ a.paramMORMapping # {}

\* C27: addParamWrapper called with the three sub-configs returns a wrapper
\* holding exactly these three, whatever wrapper was built before.
C27_OverridesPassThrough ==
    (uRet.op = "addParamWrapper" /\ AllThreeSupplied(uRet.arg))
        => /\ uRet.val # <<>>
           /\ {uRet.val[2].paramForcefield} = uRet.arg.paramForcefield
           /\ {uRet.val[2].paramMappedMatrixMapping} = uRet.arg.paramMappedMatrixMapping
           /\ {uRet.val[2].paramMORMapping} = uRet.arg.paramMORMapping

\* The five file-name collections.
FileNameLists(self) ==
    <<self.gieFilesNames, self.RIDFilesNames, self.weightsFilesNames,
      self.savedElementsFilesNames, self.listActiveNodesFilesNames>>

\* C28: a call of setFilesName that follows a call of setFilesName for the same
\* node leaves the five file-name collections as they were.
C28_SetFilesNameIdempotent ==
    [][(/\ uRet.op = "setFilesName" /\ uRet.raised = "none"
        /\ uRet'.op = "setFilesName" /\ uRet'.raised = "none"
        /\ uObj'.calls = uObj.calls + 1)
          => FileNameLists(uObj') = FileNameLists(uObj)]_vars

StartsWith(str, prefix) ==
    Len(str) >= Len(prefix) /\ SubSeq(str, 1, Len(prefix)) = prefix

\* The last call built a wrapper for the given stage.
WrapperBuilt(prepare) ==
    /\ uRet.op = "addParamWrapper"
    /\ ~(DictTruth(uRet.arg.paramForcefield)
           /\ DictTruth(uRet.arg.paramMappedMatrixMapping)
           /\ DictTruth(uRet.arg.paramMORMapping))
    /\ uRet.arg.prepareECSW = prepare

\* C30: a wrapper built for the production stage enables hyper-reduction, has
\* none of prepareECSW, periodSaveGIE and nbTrainingSet, and every file it
\* names lies under the relative data folder; a wrapper built for the training
\* stage enables the capture and disables hyper-reduction in the mapped-matrix
\* mapping.
C30_StageWrappers ==
    /\ WrapperBuilt(FALSE) =>
         LET ff == uRet.val[2].paramForcefield
             mm == uRet.val[2].paramMappedMatrixMapping
             mor == uRet.val[2].paramMORMapping
         IN  /\ "performECSW" \in DOMAIN ff
             /\ ff.performECSW = TRUE
             /\ mm.performECSW = TRUE
             /\ DOMAIN ff \cap {"prepareECSW", "periodSaveGIE", "nbTrainingSet"} = {}
             /\ {"modesPath", "RIDPath", "weightsPath"} \subseteq DOMAIN ff
             /\ {"listActiveNodesPath", "precomputedMassPath"} \subseteq DOMAIN mm
             /\ \A p \in {ff.modesPath, ff.RIDPath, ff.weightsPath, mor.modesPath,
                          mm.listActiveNodesPath, mm.precomputedMassPath} :
                    StartsWith(p, uObj.dataFolder)
             /\ uObj.dataFolder = <<"/", "d", "a", "t", "a", "/">>
    /\ WrapperBuilt(TRUE) =>
         /\ "prepareECSW" \in DOMAIN uRet.val[2].paramForcefield
         /\ uRet.val[2].paramForcefield.prepareECSW = TRUE
         /\ uRet.val[2].paramMappedMatrixMapping.performECSW = FALSE

\* A production wrapper built after phase3 has set the mass file name, over a
\* training wrapper.
C30_Witness ==
    /\ WrapperBuilt(FALSE)
    /\ uObj.massName = MassOutName
    /\ uRet.val[2].paramMappedMatrixMapping.precomputedMassPath
         = <<"/", "d", "a", "t", "a", "/">> \o MassOutName
    /\ uRet.val = uObj.paramWrapper

----------------------------------------------------------------------------
\* PackageBuilder.addToLib on the shared library: uObj holds the lines of
\* pathToReducedModel+'__init__.py', each with its line end, and the packages
\* of the library with the text of their __init__.py.

AllMarker == <<"_", "_", "a", "l", "l", "_", "_">>
EmptyList == <<"[", "]">>

\* line[:-2]
DropLastTwo(line) == SubSeq(line, 1, Len(line) - 2)

\* Mutant of RegisterLine: the comma is written whatever the list holds.
RegisterLineComma(line, packageName) ==
    IF IsSubstr(AllMarker, line)
    THEN DropLastTwo(line) \o <<",", "'">> \o packageName \o <<"'", "]", "\n">>
    ELSE line

\* What the loop over fileinput.input(..., inplace=True) writes for one line:
\* the line found to hold '__all__' loses its last two characters and gets the
\* quoted name, after a comma unless the line holds '[]', then the bracket and
\* a line end; any other line is written as read. The trailing comma of the
\* print statements adds nothing after a line end.
RegisterLine(line, packageName) ==
    IF IsSubstr(AllMarker, line)
    THEN IF IsSubstr(EmptyList, line)
         THEN DropLastTwo(line) \o <<"'">> \o packageName \o <<"'", "]", "\n">>
         ELSE DropLastTwo(line) \o <<",", "'">> \o packageName \o <<"'", "]", "\n">>
    ELSE line

\* The text of template/myInit.txt, a file that is not in the source: one line
\* naming the module and its class.
MyInitTemplate ==
    <<"i", "m", "p", "o", "r", "t", " ", "m", "y", "R", "e", "d", "u", "c", "e", "d", "M", "o", "d", "e", "l", ".", "M", "y", "R", "e", "d", "u", "c", "e", "d", "M", "o", "d", "e", "l", "\n">>

\* packageName[0].upper(), for the letters of the names used
UpperChar(c) == IF c = "r" THEN "R" ELSE c

\* myInit after the two replace calls
MyInit(packageName) ==
    Replace(Replace(MyInitTemplate, <<"M", "y", "R", "e", "d", "u", "c", "e", "d", "M", "o", "d", "e", "l">>,
                    <<UpperChar(Head(packageName))>> \o Tail(packageName)),
            <<"m", "y", "R", "e", "d", "u", "c", "e", "d", "M", "o", "d", "e", "l">>, packageName)

\* self.packageName = 'reduced_'+packageName
ReducedName(packageName) == <<"r", "e", "d", "u", "c", "e", "d", "_">> \o packageName

\* The package names given to PackageBuilder.
PackageNames == {<<"a">>, <<"b">>, <<"c">>}

EmptyAllLine == <<"_", "_", "a", "l", "l", "_", "_", " ", "=", " ", "[", "]", "\n">>

\* The index files registrations start from: the marker line last, the marker
\* line first, the marker line without line end, and a second line that holds
\* '__all__'.
LibraryIndexes ==
    {<<<<"#", " ", "l", "\n">>, EmptyAllLine>>,
     <<EmptyAllLine, <<"x", "=", "1", "\n">>>>,
     <<<<"#", " ", "l", "\n">>, DropLastTwo(EmptyAllLine) \o <<"]">> >>,
     <<<<"#", " ", "_", "_", "a", "l", "l", "_", "_", "\n">>, EmptyAllLine>>}

\* PackageBuilder(outputDir, name, addToLib = True) followed by addToLib(): the
\* constructor raises when the library holds a directory of that name;
\* otherwise the output directory is copied there, the initializer text is
\* appended to its __init__.py and the index file is rewritten line by line.
UAddToLib ==
    /\ uObj.class = "Library"
    /\ uObj.calls < MaxUnitCalls
    /\ \E name \in PackageNames :
         \E packageName \in {ReducedName(name)} :
           IF packageName \in DOMAIN uObj.packages
           THEN /\ uObj' = [uObj EXCEPT !.calls = @ + 1]
                /\ uRet' = [op |-> "addToLib", arg |-> packageName,
                            raised |-> "Exception", val |-> 0]
           ELSE /\ uObj' = [uObj EXCEPT
                     !.packages = [p \in DOMAIN @ \cup {packageName} |->
                                      IF p = packageName THEN MyInit(packageName)
                                      ELSE @[p]],
                     !.index = [i \in 1..Len(@) |-> RegisterLine(@[i], packageName)],
                     !.registered = Append(@, packageName),
                     !.calls = @ + 1]
                /\ uRet' = [op |-> "addToLib", arg |-> packageName,
                            raised |-> "none", val |-> 0]
    /\ UnitFrame

\* The library before any registration; start keeps the index file as it was
\* and registered lists the names registered since.
LibraryObjects ==
    {[class |-> "Library", index |-> ix, start |-> ix, packages |-> EmptyDir,
      registered |-> <<>>, calls |-> 0] : ix \in LibraryIndexes}

----------------------------------------------------------------------------
\* Properties of addToLib (SpecUnits)

RECURSIVE QuotedNames(_)
\* 'p1','p2',...,'pk'
QuotedNames(names) ==
    IF names = <<>> THEN <<>>
    ELSE IF Len(names) = 1 THEN <<"'">> \o names[1] \o <<"'">>
    ELSE QuotedNames(SubSeq(names, 1, Len(names) - 1))
           \o <<",", "'">> \o names[Len(names)] \o <<"'">>

\* The index file had one line holding '__all__', the line  __all__ = []  with
\* its line end.
OneEmptyMarkerLine(ix) ==
    /\ \E i \in 1..Len(ix) : ix[i] = EmptyAllLine
    /\ \A i \in 1..Len(ix) : IsSubstr(AllMarker, ix[i]) => ix[i] = EmptyAllLine

UnitObjects ==
    {[class |-> "PackageBuilder", dataDir |-> d] : d \in ModesDataDirs}
      \cup ReductionAnimationsObjects
      \cup ReductionParamObjects
      \cup LibraryObjects

UnitInit ==
    /\ LaunchIdle
    /\ MergeIdle
    /\ NoOrchestrator
    /\ nbActuator = 1
    /\ nbPossibility = 2
    /\ nbIterations = SetNbIteration(ListObjToAnimate(1), 0)
    /\ phaseNum = << <<0>>, <<1>> >>
    /\ phaseNumClass = << <<0>>, <<1>> >>
    /\ genPc = "done"
    /\ gi = 0
    /\ gnb = 2
    /\ uObj \in UnitObjects
    /\ uRet = NoReturn

UnitNext ==
    \/ UCheckNodeNbr
    \/ USetNbIteration
    \/ UAddParamWrapper
    \/ USetFilesName
    \/ UAddToLib

SpecUnits == UnitInit /\ [][UnitNext]_vars

====
